---- MODULE Spec2Model ----
(***************************************************************************)
(* Client-side routing and write fan-out of horaedb-client-rs:             *)
(*   RouterImpl (src/router.rs): route cache, remote resolution, evict;    *)
(*   RouteBasedImpl::write (src/db_client/route_based.rs): partitioning    *)
(*   by endpoint, concurrent dispatch, join, eviction of stale routes;     *)
(*   RouteBasedWriteError::from (src/errors.rs): result aggregation;       *)
(*   should_refresh (src/util.rs): routing-stale classification.           *)
(*                                                                         *)
(* Callers are processes.  The cache, the client pool and the OnceCells are *)
(* shared by the callers and may be used from several threads at once, so   *)
(* an action holds at most one access to them: the loops over the cache     *)
(* (route's lookups and inserts, evict's removes), over the pool and over   *)
(* the partitions' futures advance one access per step, `idx` telling where *)
(* the loop is.  An await point (the build of a client, a remote call) ends *)
(* a step; the step that takes up its outcome does the work that follows,   *)
(* up to and including the next access.                                     *)
(***************************************************************************)
EXTENDS Integers, Sequences, FiniteSets, TLC

(* ------------------------------ bounds -------------------------------- *)

\* Queries a run may start.
MaxQueries == 2

\* Uses of pooled clients (queries, write partitions) a run may start.
MaxInnerCalls == 3

\* Calls of RouteClient::route a run may start.
MaxRcCalls == 3

\* Pairs (tables, result) the aggregator is given.
MaxPairs == 3

\* Pieces a status message is put together from.
MaxPieces == 2

\* Direct calls of the client pool a run may start.
MaxPoolCalls == 3

\* Number of Router calls (route, evict) a caller makes in one behaviour.
MaxCalls == 3

\* Number of write calls a caller makes in one behaviour.
MaxWrites == 1

\* Calls, writes or queries, of a caller that calls again after a failure.
MaxRetryCalls == 2

\* Number of write calls a caller makes through a stub Router.
MaxStubWrites == 1

\* Number of times the server-side routing table changes in one behaviour.
MaxChanges == 1

\* Longest table list handed to Router::route directly.
MaxRouteLen == 2

(* ----------------------------- universe ------------------------------- *)

Procs == {"p1", "p2"}

\* The callers of the sequential specification.
SeqProcs == {"p1"}

TableOrder == <<"A", "B", "C">>

Tables == {TableOrder[i] : i \in 1..Len(TableOrder)}

\* Option::None
None == "none"

\* RouterImpl.default_endpoint
DefaultEndpoint == "D"

\* Endpoints the server may name in a route response.
RemoteEndpoints == {"X", "D"}

Endpoints == RemoteEndpoints \cup {DefaultEndpoint}

OptEndpoints == Endpoints \cup {None}

\* The routing table the server starts with: A and B are served by X, C has
\* no route.
InitialRoutes == [t \in Tables |-> IF t = "C" THEN None ELSE "X"]

\* StatusCode::InvalidArgument
InvalidArgument == 400

\* StatusCode::InternalError
InternalError == 500

(* ------------------------------ errors -------------------------------- *)

\* Error::Server(ServerError { code, msg })
ServerError(code, msg) == [kind |-> "Server", code |-> code, msg |-> msg]

\* Error::Rpc(tonic::Status): transport failure or timeout of one call
RpcError == [kind |-> "Rpc", code |-> 0, msg |-> "timeout"]

\* Error::AuthFail(AuthFailStatus)
AuthFailError == [kind |-> "AuthFail", code |-> 1, msg |-> "invalid tenant"]

\* Error::Unknown(String)
UnknownError(msg) == [kind |-> "Unknown", code |-> 0, msg |-> msg]

\* Error::Connect, returned by RpcClientFactory::build
ConnectError == [kind |-> "Connect", code |-> 0, msg |-> "failed to connect"]

\* Error::Client(String), returned by init_router for a router_endpoint that
\* does not parse
ClientError(msg) == [kind |-> "Client", code |-> 0, msg |-> msg]

\* Error::NoDatabase, returned by resolve_database
NoDatabaseError == [kind |-> "NoDatabase", code |-> 0, msg |-> "no database"]

\* Failures the remote route call can end with.
RouteFailures == {RpcError, ServerError(InternalError, "internal error")}

\* Failures one partition's write_internal can end with.
WriteFailures ==
    { ServerError(InvalidArgument, "Table 'B' not found"),
      ServerError(InvalidArgument, "table not found"),
      ServerError(InternalError, "internal error"),
      RpcError, AuthFailError }

\* WriteResponse { success, failed } values a server answers with; a count is
\* a u32, written as its two 16-bit halves <<hi, lo>>.
WriteResponses ==
    { [success |-> <<0, 5>>, failed |-> <<0, 0>>], [success |-> <<0, 1>>, failed |-> <<0, 2>>] }

\* Result<T>: Ok(v) or Err(e); `st` tells the variants apart.
Ok(v) == [st |-> "ok", ok |-> TRUE, val |-> v, err |-> None]

Err(e) == [st |-> "err", ok |-> FALSE, val |-> None, err |-> e]

\* A partition whose write has not completed yet.
Pending == [st |-> "pending", ok |-> FALSE, val |-> None, err |-> None]

\* A call that ended with a panic of its task.
Panicked == [st |-> "panic", ok |-> FALSE, val |-> None, err |-> None]

\* A call that has not returned yet.
NoRet == [st |-> "none", ok |-> FALSE, val |-> None, err |-> None]

\* No client: an endpoint without pool entry, a caller without handle.
NoClient == [ep |-> None, id |-> 0]

(* ------------------------------ helpers ------------------------------- *)

Range(s) == {s[i] : i \in 1..Len(s)}

Max(S) == CHOOSE m \in S : \A n \in S : n <= m

\* All sequences without repetition that enumerate the set S.
Perms(S) ==
    { s \in [1..Cardinality(S) -> S] : \A i, j \in 1..Cardinality(S) : s[i] = s[j] => i = j }

\* Sequences over S of length at most n.
SeqsUpTo(S, n) == UNION { [1..k -> S] : k \in 0..n }

\* str::contains on strings
Contains(s, pat) ==
    \E i \in 1..(Len(s) - Len(pat) + 1) : SubSeq(s, i, i + Len(pat) - 1) = pat

(* ------------------------------ util.rs ------------------------------- *)

\* Mutant of should_refresh: the message is not looked at.
should_refreshCodeOnly(code, msg) == code = InvalidArgument

\* lines 38-43
should_refresh(code, msg) ==
    /\ code = InvalidArgument
    /\ Contains(msg, "Table")
    /\ Contains(msg, "not found")

(* ------------------- errors.rs: RouteBasedWriteError ------------------ *)

\* A u32 is written as its two 16-bit halves <<hi, lo>>, its value being
\* hi * 2^16 + lo.
Half == 65536

\* The sum of two u32 and the carry out of bit 31.
AddCarry(a, b) ==
    LET lo == a[2] + b[2]
        hi == a[1] + b[1] + (lo \div Half)
    IN  [carry |-> hi \div Half, val |-> <<hi % Half, lo % Half>>]

\* `total += count` on u32 (lines 72-73): when the sum is beyond u32::MAX, a
\* build with overflow checks (debug) panics and one without (release) keeps
\* the sum modulo 2^32.
U32Add(total, count, overflow_checks) ==
    LET s == AddCarry(total, count)
    IN  [panicked |-> s.carry # 0 /\ overflow_checks, val |-> s.val]

\* Mutant of FromLoop: the failed count of a successful partition is added to
\* success_total, and failed_total is never updated.
RECURSIVE FromLoopMixedCounts(_, _, _)
FromLoopMixedCounts(pairs, acc, overflow_checks) ==
    IF pairs = <<>> THEN acc
    ELSE LET h == Head(pairs) IN
         IF h.result.ok
         THEN LET s == U32Add(acc.ok.success, h.result.val.success, overflow_checks)
                  f == U32Add(s.val, h.result.val.failed, overflow_checks)
              IN  FromLoopMixedCounts(Tail(pairs),
                                      [acc EXCEPT !.ok.tables = @ \o h.tables,
                                                  !.ok.success = f.val],
                                      overflow_checks)
         ELSE FromLoopMixedCounts(Tail(pairs),
                                  [acc EXCEPT !.errors = Append(@, [tables |-> h.tables,
                                                                     err |-> h.result.err])],
                                  overflow_checks)

\* Mutant of FromLoop: the counts of a successful partition replace the
\* totals (`=` instead of `+=`).
RECURSIVE FromLoopOverwrite(_, _, _)
FromLoopOverwrite(pairs, acc, overflow_checks) ==
    IF pairs = <<>> THEN acc
    ELSE LET h == Head(pairs) IN
         IF h.result.ok
         THEN FromLoopOverwrite(Tail(pairs),
                                [acc EXCEPT !.ok.tables = @ \o h.tables,
                                            !.ok.success = h.result.val.success,
                                            !.ok.failed = h.result.val.failed],
                                overflow_checks)
         ELSE FromLoopOverwrite(Tail(pairs),
                                [acc EXCEPT !.errors = Append(@, [tables |-> h.tables,
                                                                   err |-> h.result.err])],
                                overflow_checks)

\* From<Vec<(Vec<String>, Result<Response>)>>, lines 63-87: one pass over the
\* pairs, in order; acc is (ok_tables, success_total, failed_total, errors).
\* A panic of `+=` ends the pass.
RECURSIVE FromLoop(_, _, _)
FromLoop(pairs, acc, overflow_checks) ==
    IF pairs = <<>> \/ acc.panicked THEN acc
    ELSE LET h == Head(pairs) IN
         IF h.result.ok
         THEN LET s == U32Add(acc.ok.success, h.result.val.success, overflow_checks)
                  f == U32Add(acc.ok.failed, h.result.val.failed, overflow_checks)
              IN  IF s.panicked
                  THEN [acc EXCEPT !.panicked = TRUE]
                  ELSE IF f.panicked
                  THEN [acc EXCEPT !.panicked = TRUE, !.ok.success = s.val]
                  ELSE FromLoop(Tail(pairs),
                                [acc EXCEPT !.ok.tables = @ \o h.tables,
                                            !.ok.success = s.val,
                                            !.ok.failed = f.val],
                                overflow_checks)
         ELSE FromLoop(Tail(pairs),
                       [acc EXCEPT !.errors = Append(@, [tables |-> h.tables,
                                                          err |-> h.result.err])],
                       overflow_checks)

From(pairs, overflow_checks) ==
    FromLoop(pairs,
             [ok |-> [tables |-> <<>>, success |-> <<0, 0>>, failed |-> <<0, 0>>],
              errors |-> <<>>, panicked |-> FALSE],
             overflow_checks)

\* RouteBasedWriteError::all_ok, lines 90-92
all_ok(e) == e.errors = <<>>

(* ---------------------- model/route.rs: Endpoint ---------------------- *)

\* The positions of ':' in s.
ColonAt(s) == {i \in 1..Len(s) : SubSeq(s, i, i) = ":"}

IsDigit(c) == \E d \in 0..9 : SubSeq("0123456789", d + 1, d + 1) = c

DigitOf(c) == CHOOSE d \in 0..9 : SubSeq("0123456789", d + 1, d + 1) = c

\* str::parse::<u32>, the loop over the digits from the left, at digit i
\* with the value acc of the digits before it, a u32 as <<hi, lo>> (hi * 2^16
\* + lo): a character that is no digit ends the parse (InvalidDigit), and so
\* does a value beyond u32::MAX (PosOverflow: checked_mul, checked_add).
RECURSIVE ParseDigits(_, _, _)
ParseDigits(ds, i, acc) ==
    IF i > Len(ds) THEN [ok |-> TRUE, val |-> acc, err |-> ""]
    ELSE IF ~IsDigit(SubSeq(ds, i, i))
    THEN [ok |-> FALSE, val |-> <<0, 0>>, err |-> "invalid digit found in string"]
    ELSE LET lo == acc[2] * 10 + DigitOf(SubSeq(ds, i, i))
             hi == acc[1] * 10 + (lo \div Half)
         IN  IF hi >= Half
             THEN [ok |-> FALSE, val |-> <<0, 0>>,
                   err |-> "number too large to fit in target type"]
             ELSE ParseDigits(ds, i + 1, <<hi, lo % Half>>)

\* raw_port.parse::<u32>(), line 42: the empty string does not parse (Empty),
\* nor does a lone sign; a leading '+' is skipped, then come the digits.  The
\* value is a u32 as <<hi, lo>>, err is the Display of the ParseIntError.
ParseU32(s) ==
    IF s = ""
    THEN [ok |-> FALSE, val |-> <<0, 0>>, err |-> "cannot parse integer from empty string"]
    ELSE IF s \in {"+", "-"}
    THEN [ok |-> FALSE, val |-> <<0, 0>>, err |-> "invalid digit found in string"]
    ELSE ParseDigits(IF SubSeq(s, 1, 1) = "+" THEN SubSeq(s, 2, Len(s)) ELSE s, 1, <<0, 0>>)

\* <Endpoint as FromStr>::from_str, lines 27-57: the string is split at its
\* last ':'; the address must not be empty, the port must parse as u32
\* (line 42) and be at most u16::MAX (line 46: hi is 0).
FromStr(s) ==
    IF ColonAt(s) = {}
    THEN [ok |-> FALSE, addr |-> "", port |-> 0,
          err |-> "Can't find ':' in the source string"]
    ELSE LET i == Max(ColonAt(s))
             addr == SubSeq(s, 1, i - 1)
             raw_port == SubSeq(s, i + 1, Len(s))
             port == ParseU32(raw_port)
         IN  IF addr = ""
             THEN [ok |-> FALSE, addr |-> "", port |-> 0,
                   err |-> "Empty addr in the source string"]
             ELSE IF ~port.ok
             THEN [ok |-> FALSE, addr |-> "", port |-> 0,
                   err |-> "Fail to parse port:" \o raw_port \o ", err:" \o port.err]
             ELSE IF port.val[1] > 0
             THEN [ok |-> FALSE, addr |-> "", port |-> 0, err |-> "Too large port (<=65536)"]
             ELSE [ok |-> TRUE, addr |-> addr, port |-> port.val[2], err |-> ""]

\* init_router, route_based.rs lines 48-53: the error for a router_endpoint
\* s that does not parse, Error::Client with the endpoint and the error of
\* from_str.
ParseEndpointError(s) ==
    ClientError("Failed to parse default endpoint:" \o s \o ", err:" \o FromStr(s).err)

(* ------------------------------ state --------------------------------- *)

VARIABLES
    cache,             \* RouterImpl.cache: table -> endpoint, None when absent
    route_table,       \* the server's routing table (MockRpcClient.route_table)
    evicted,           \* history: endpoint a table had when it was last evicted,
                       \* reset when the table is inserted again
    pc,                \* per caller: position in its current call
    op,                \* per caller: the call in progress
    tables,            \* per caller: `tables` of route / `should_routes` of write
    target_endpoints,  \* per caller: route's `target_endpoints`
    misses,            \* per caller: route's `misses` (table -> index)
    rpcs,              \* per caller, history: the remote route requests its call issued
    evicted0,          \* per caller, history: `evicted` when its call began
    cache0,            \* per caller, history: the cache when its call began
    resp0,             \* per caller: the response its route call received
    idx,               \* per caller: the position of the loop it is in
    completed,         \* per caller, history: partitions in order of completion
    route_based_error, \* per caller: write's `route_based_error`
    parts,             \* per caller: write's partitions with their results
    no_ep,             \* per caller: write's `no_corresponding_endpoints`
    sent,              \* per caller, history: write_internal invocations
    evicts,            \* per caller: write's `evicts` / the tables a failed query
                       \* hands to evict
    ret,               \* per caller: what the call returned; during the evict of
                       \* a failed query, the error it is about to return
    ncalls,            \* calls started so far
    nchanges,          \* routing table changes so far
    router,            \* RouteBasedImpl.router (OnceCell): None until initialised
    init_permit,       \* the caller that holds the OnceCell's permit, or None
    routers_built,     \* history: number of init_router calls that succeeded
    pool,              \* DirectClientPool.pool: endpoint -> client handle, or NoClient
    built,             \* history: InnerClients constructed so far, per endpoint
    endpoint,          \* per caller: sql_query's `endpoint` / get_or_create's argument
    client,            \* per caller: the handle get_or_create returned last
    qsent,             \* per caller, history: endpoints its RPC was sent to
    database,          \* per caller: whether resolve_database finds a database for
                       \* the context of its call (TRUE between calls)
    rc_cache,          \* RouteClientImpl.cache: metric -> Route, NoRoute when absent
    force_refresh,     \* per caller: `force_refresh` of RouteClient::route
    refreshed,         \* history: the endpoint the last forced route returned
                       \* for a metric, as <<endpoint>>, or <<>>
    fin,               \* the input of the function under check
    fout,              \* the outputs computed from fin so far
    inner_client,      \* per InnerClient (the pooled client of an endpoint, the
                       \* one a RawImpl owns): its inner_client (OnceCell), the
                       \* cell's permit, and history of its builds
    router_endpoint,   \* RouteBasedImpl.router_endpoint
    overflow_checks    \* whether the build checks integer overflow (debug) or
                       \* not (release)

routerVars == <<cache, evicted>>

routeLocals == <<tables, target_endpoints, misses, rpcs, evicted0, cache0, resp0>>

writeLocals == <<parts, no_ep, sent, evicts, completed, route_based_error>>

\* RouteBasedImpl's own state: the router cell and the client pool.
clientVars == <<router, init_permit, routers_built, pool, built>>

queryLocals == <<endpoint, client, qsent>>

\* RouteClientImpl's state and the locals of its route.
routeClientVars == <<rc_cache, force_refresh, refreshed>>

\* The input and the outputs of a function checked on its own.
pureVars == <<fin, fout>>

\* What the client is configured and built with.
configVars == <<router_endpoint, overflow_checks>>

vars == <<cache, route_table, evicted, pc, op, tables, target_endpoints, misses,
          rpcs, evicted0, cache0, resp0, idx, parts, no_ep, sent, evicts, completed,
          route_based_error, ret, ncalls, nchanges, router, init_permit,
          routers_built, pool, built, endpoint, client, qsent, database, rc_cache,
          force_refresh, refreshed, fin, fout, inner_client, router_endpoint,
          overflow_checks>>

EmptyCache == [t \in Tables |-> None]

\* OnceCell::new() of an InnerClient (inner.rs lines 40-46): no transport
\* client, nobody initialising; no build attempted, none succeeded.
\* The InnerClient a RawImpl owns (raw.rs line 32, built by RawImpl::new,
\* line 40): a client of its own, whatever the pool holds for its endpoint.
RawCell == "RawImpl"

NoInnerClient == [value |-> None, permit |-> None, attempts |-> 0, built |-> 0]

\* Route::default() is (String::new(), None); NoRoute stands for a metric the
\* cache of RouteClientImpl has no entry for.
NoRoute == [metric |-> None, endpoint |-> None]

\* The state after construction of the clients (RouteBasedImpl::new,
\* RouterImpl::new, DirectClientPool::new, RouteClientImpl::new).
InitClient ==
    /\ cache = EmptyCache
    /\ route_table = InitialRoutes
    /\ evicted = [t \in Tables |-> None]
    /\ pc = [p \in Procs |-> "idle"]
    /\ op = [p \in Procs |-> None]
    /\ tables = [p \in Procs |-> <<>>]
    /\ target_endpoints = [p \in Procs |-> <<>>]
    /\ misses = [p \in Procs |-> <<>>]
    /\ rpcs = [p \in Procs |-> <<>>]
    /\ evicted0 = [p \in Procs |-> EmptyCache]
    /\ cache0 = [p \in Procs |-> EmptyCache]
    /\ resp0 = [p \in Procs |-> <<>>]
    /\ idx = [p \in Procs |-> 0]
    /\ completed = [p \in Procs |-> <<>>]
    /\ route_based_error = [p \in Procs |-> From(<<>>, TRUE)]
    /\ parts = [p \in Procs |-> <<>>]
    /\ no_ep = [p \in Procs |-> <<>>]
    /\ sent = [p \in Procs |-> <<>>]
    /\ evicts = [p \in Procs |-> <<>>]
    /\ ret = [p \in Procs |-> NoRet]
    /\ ncalls = 0
    /\ nchanges = 0
    /\ router = None
    /\ init_permit = None
    /\ routers_built = 0
    /\ pool = [e \in Endpoints |-> NoClient]
    /\ built = [e \in Endpoints |-> 0]
    /\ endpoint = [p \in Procs |-> None]
    /\ client = [p \in Procs |-> NoClient]
    /\ qsent = [p \in Procs |-> <<>>]
    /\ database = [p \in Procs |-> TRUE]
    /\ rc_cache = [t \in Tables |-> NoRoute]
    /\ force_refresh = [p \in Procs |-> FALSE]
    /\ refreshed = [t \in Tables |-> <<>>]
    /\ inner_client = [e \in Endpoints \cup {RawCell} |-> NoInnerClient]

\* A client with a well-formed router_endpoint, in a build with overflow
\* checks (the counts the servers of these runs answer are small, their sums
\* overflow in no build).
Init ==
    /\ InitClient
    /\ router_endpoint = "D:80"
    /\ overflow_checks = TRUE
    /\ fin = <<>>
    /\ fout = <<>>

(* ------------------------- router.rs: RouterImpl ---------------------- *)

\* Mutant of FindFromCache: the cache is not consulted, every table is a miss.
FindFromCacheAlwaysMiss(c, tbls, i, target, m) ==
    [target |-> target, misses |-> (tbls[i] :> i) @@ m]

\* Mutant of FindFromCache: a miss leaves None at its index.
FindFromCacheNoDefault(c, tbls, i, target, m) ==
    IF c[tbls[i]] # None
    THEN [target |-> [target EXCEPT ![i] = c[tbls[i]]], misses |-> m]
    ELSE [target |-> [target EXCEPT ![i] = None], misses |-> (tbls[i] :> i) @@ m]

\* route, lines 58-68, one pass of the loop, for the table at index i: a
\* cache hit overwrites its index of target_endpoints, a miss is recorded in
\* the HashMap `misses` (a repeated miss keeps the last index).
FindFromCache(c, tbls, i, target, m) ==
    IF c[tbls[i]] # None
    THEN [target |-> [target EXCEPT ![i] = c[tbls[i]]], misses |-> m]
    ELSE [target |-> target, misses |-> (tbls[i] :> i) @@ m]

\* route, lines 72-76: the tables of the request sent to the remote, the keys
\* of `misses`; it is sent whether or not there is a miss.
RouteRequest(m) == DOMAIN m

\* Mutant of FillMisses: an entry without endpoint caches the default endpoint.
FillMissesCachesDefault(r, m, c, target) ==
    IF r.table \notin DOMAIN m
    THEN [ok |-> FALSE, cache |-> c, target |-> target, inserted |-> {}]
    ELSE LET e == IF r.endpoint = None THEN DefaultEndpoint ELSE r.endpoint IN
         [ok |-> TRUE,
          cache |-> [c EXCEPT ![r.table] = e],
          target |-> [target EXCEPT ![m[r.table]] = e],
          inserted |-> {r.table}]

\* route, lines 79-92, one pass of the loop, for the response entry r: an
\* entry without endpoint is skipped; an entry for a table that is not a miss
\* ends the call with Error::Unknown; otherwise the endpoint goes into the
\* cache and to the index of the miss.
FillMisses(r, m, c, target) ==
    IF r.endpoint = None
    THEN [ok |-> TRUE, cache |-> c, target |-> target, inserted |-> {}]
    ELSE IF r.table \notin DOMAIN m
    THEN [ok |-> FALSE, cache |-> c, target |-> target, inserted |-> {}]
    ELSE [ok |-> TRUE,
          cache |-> [c EXCEPT ![r.table] = r.endpoint],
          target |-> [target EXCEPT ![m[r.table]] = r.endpoint],
          inserted |-> {r.table}]

\* Mutant of EvictCache: the whole cache is cleared.
EvictCacheAll(c, m) == [t \in Tables |-> None]

\* Mutant of EvictCache: the entry is looked up but not removed.
EvictCacheKeep(c, m) == c

\* evict, line 99: self.cache.remove(m)
EvictCache(c, m) == [c EXCEPT ![m] = None]

\* History of evictions: what the evicted table was mapped to ("absent" when
\* it was not cached).
EvictHistory(c, ev, m) ==
    [ev EXCEPT ![m] = IF c[m] # None THEN c[m]
                      ELSE IF ev[m] # None THEN ev[m] ELSE "absent"]

InsertHistory(ev, ins) == [t \in Tables |-> IF t \in ins THEN None ELSE ev[t]]

(* ----------------- the remote side of RpcClient::route ---------------- *)

InsertAt(s, k, e) == SubSeq(s, 1, k) \o <<e>> \o SubSeq(s, k + 1, Len(s))

\* The server's answer to the request whose tables are the sequence req: one
\* entry per table it has an endpoint for, in the order of the request
\* (MockRpcClient::route); for a table without endpoint the entry is left
\* out, or present with endpoint None when explicitNone.
ServerRoutes(req, rt, explicitNone) ==
    LET all == [i \in 1..Len(req) |-> [table |-> req[i], endpoint |-> rt[req[i]]]]
    IN  IF explicitNone THEN all ELSE SelectSeq(all, LAMBDA r : r.endpoint # None)

\* Every response the remote may give to a request for the tables req.  The
\* request lists them in the iteration order of the HashMap `misses`
\* (router.rs lines 74-75), which is any order; the response is the server's
\* answer to it, possibly with one entry for a table that was not requested.
Responses(req, rt) ==
    LET honest == {ServerRoutes(o, rt, b) : o \in Perms(req), b \in BOOLEAN}
    IN  honest \cup
        { InsertAt(x[1], x[2], [table |-> x[3], endpoint |-> rt[x[3]]]) :
            x \in { y \in honest \X (0..Cardinality(req)) \X (Tables \ req) :
                      y[2] <= Len(y[1]) /\ rt[y[3]] # None } }

(* ------------ db_client/route_based.rs: DirectClientPool -------------- *)

\* Arc::new(InnerClient::new(factory, endpoint)), lines 207-210: the k-th
\* client constructed for endpoint ep.
NewInnerClient(ep, k) == [ep |-> ep, id |-> k]

\* pool.get(endpoint), lines 200-202
PoolGet(pl, ep) == pl[ep]

\* Mutant of PoolEntryOrInsert: the new client replaces the pooled one
\* (insert instead of entry().or_insert()).
PoolEntryInsert(pl, bl, ep) ==
    LET h == NewInnerClient(ep, bl[ep] + 1)
    IN  [pool |-> [pl EXCEPT ![ep] = h],
         built |-> [bl EXCEPT ![ep] = @ + 1],
         client |-> h]

\* pool.entry(endpoint).or_insert(Arc::new(InnerClient::new(..))).clone(),
\* lines 205-211: a client is constructed; it is pooled and returned if the
\* endpoint has no client, dropped otherwise, and the pooled one is returned.
PoolEntryOrInsert(pl, bl, ep) ==
    LET h == NewInnerClient(ep, bl[ep] + 1)
    IN  [pool |-> IF pl[ep] = NoClient THEN [pl EXCEPT ![ep] = h] ELSE pl,
         built |-> [bl EXCEPT ![ep] = @ + 1],
         client |-> IF pl[ep] = NoClient THEN h ELSE pl[ep]]

(* ---------------- db_client/inner.rs: InnerClient -------------------- *)

\* Mutant of InnerGetOrTryInit: a user that finds the cell empty builds at
\* once, whether or not a build is in flight.
InnerGetOrTryInitNoPermit(ic, p) ==
    IF ic.value # None
    THEN [cell |-> ic, at |-> "rpc"]
    ELSE [cell |-> [ic EXCEPT !.permit = p, !.attempts = @ + 1], at |-> "init"]

\* self.inner_client.get_or_try_init(|| self.init()), up to its first await
\* (inner.rs lines 59 and 84), on the cell ic, for the user p: a set cell
\* gives the transport client at once and the RPC is sent; otherwise the user
\* needs the cell's permit: it takes it and init runs up to
\* factory.build().await, or, the permit being held by a build in flight, it
\* waits.
InnerGetOrTryInit(ic, p) ==
    IF ic.value # None
    THEN [cell |-> ic, at |-> "rpc"]
    ELSE IF ic.permit = None
    THEN [cell |-> [ic EXCEPT !.permit = p, !.attempts = @ + 1], at |-> "init"]
    ELSE [cell |-> ic, at |-> "wait"]

(* ------------- db_client/route_based.rs: RouteBasedImpl::write -------- *)

\* The entries of table t in the request of caller p (opaque payload).
PointsOf(p, t) == <<p, t>>

\* lines 102-120: no_corresponding_endpoints, the tables Route gave no
\* endpoint for, in should_routes order.
NoCorrespondingEndpoints(eps, tbls) ==
    LET ix == SelectSeq([i \in 1..Len(tbls) |-> i], LAMBDA i : eps[i] = None)
    IN  [k \in 1..Len(ix) |-> tbls[ix[k]]]

\* Mutant of PartitionByEndpoint: the partition of an endpoint is replaced,
\* not extended, by each table routed to it (insert instead of entry).
PartitionByEndpointOverwrite(eps, tbls) ==
    [ep \in {eps[i] : i \in 1..Len(eps)} \ {None} |->
        { tbls[Max({i \in 1..Len(tbls) : eps[i] = ep})] }]

\* lines 102-120: partition_by_endpoint, endpoint -> the tables whose entries
\* were inserted into that endpoint's WriteRequest (the keys of its
\* point_groups).
PartitionByEndpoint(eps, tbls) ==
    [ep \in {eps[i] : i \in 1..Len(eps)} \ {None} |->
        {tbls[i] : i \in {j \in 1..Len(tbls) : eps[j] = ep}}]

\* The iteration orders of the keys of every partition's point_groups.
KeyOrders(pbe) ==
    { k \in [DOMAIN pbe -> UNION {Perms(pbe[ep]) : ep \in DOMAIN pbe}] :
        \A ep \in DOMAIN pbe : k[ep] \in Perms(pbe[ep]) }

\* lines 122-137: one (client, request) pair per partition, in the iteration
\* order `order` of partition_by_endpoint; write_tables[idx] are the keys of
\* the partition's request, in the iteration order keys[ep] of its
\* point_groups.  `at` tells where the partition's write_internal is: not
\* polled yet (new), building its transport client (init), waiting for a
\* build (wait), its RPC in flight (rpc), completed (done).
ClientReqPairs(p, eps, tbls, order, keys) ==
    LET pbe == PartitionByEndpoint(eps, tbls) IN
    [i \in 1..Len(order) |->
        [ep |-> order[i],
         tables |-> keys[order[i]],
         req |-> [t \in pbe[order[i]] |-> PointsOf(p, t)],
         result |-> Pending,
         at |-> "new"]]

\* Mutant of JoinAllReady: the join ends at the first failed partition
\* (try_join_all instead of join_all).
JoinAllReadyFailFast(ps) ==
    \/ \E k \in 1..Len(ps) : ps[k].result.st = "err"
    \/ \A k \in 1..Len(ps) : ps[k].result.st # "pending"

\* lines 139-141: join_all is ready when every partition's write has completed.
JoinAllReady(ps) == \A k \in 1..Len(ps) : ps[k].result.st # "pending"

\* Mutant of TablesResultPairs: one failed pair per unroutable table.
TablesResultPairsPerTable(ps, noep) ==
    [i \in 1..Len(ps) |-> [tables |-> ps[i].tables, result |-> ps[i].result]]
    \o [i \in 1..Len(noep) |->
           [tables |-> <<noep[i]>>,
            result |-> Err(UnknownError("tables don't have corresponding endpoints"))]]

\* lines 139-154: tables_result_pairs, the joined results zipped with
\* write_tables, followed by the unroutable tables when there are any.
TablesResultPairs(ps, noep) ==
    [i \in 1..Len(ps) |-> [tables |-> ps[i].tables, result |-> ps[i].result]]
    \o (IF noep # <<>>
        THEN << [tables |-> noep,
                 result |-> Err(UnknownError("tables don't have corresponding endpoints"))] >>
        ELSE <<>>)

\* Mutant of Evicts: only the first table of a stale partition is evicted.
RECURSIVE EvictsFirstTable(_)
EvictsFirstTable(pairs) ==
    IF pairs = <<>> THEN <<>>
    ELSE LET h == Head(pairs) IN
         (IF /\ h.result.st = "err"
             /\ h.result.err.kind = "Server"
             /\ should_refresh(h.result.err.code, h.result.err.msg)
          THEN SubSeq(h.tables, 1, 1) ELSE <<>>) \o EvictsFirstTable(Tail(pairs))

\* lines 159-173: the tables of every pair that failed with a server error
\* that should_refresh classifies as stale, flattened.
RECURSIVE Evicts(_)
Evicts(pairs) ==
    IF pairs = <<>> THEN <<>>
    ELSE LET h == Head(pairs) IN
         (IF /\ h.result.st = "err"
             /\ h.result.err.kind = "Server"
             /\ should_refresh(h.result.err.code, h.result.err.msg)
          THEN h.tables ELSE <<>>) \o Evicts(Tail(pairs))

\* Mutant of WriteResult: the write succeeds as soon as one partition was
\* written.
WriteResultAnyOk(pairs, checks) ==
    LET e == From(pairs, checks) IN
    IF e.panicked THEN Panicked
    ELSE IF all_ok(e) \/ e.ok.tables # <<>>
    THEN Ok([success |-> e.ok.success, failed |-> e.ok.failed])
    ELSE Err([kind |-> "RouteBasedWriteError", code |-> 0, msg |-> e])

\* lines 176-181: the value write returns; a panic of the aggregation is the
\* end of the call.
WriteResult(pairs, checks) ==
    LET e == From(pairs, checks) IN
    IF e.panicked THEN Panicked
    ELSE IF all_ok(e) THEN Ok([success |-> e.ok.success, failed |-> e.ok.failed])
    ELSE Err([kind |-> "RouteBasedWriteError", code |-> 0, msg |-> e])

(* ------------------------------ actions ------------------------------- *)

\* The server's routing table.
serverVars == <<route_table, nchanges>>

\* What no call of RouteBasedImpl, RouterImpl or InnerClient changes.
outerVars == <<routeClientVars, pureVars, configVars>>

\* route's loop over `tables` (router.rs lines 58-76) after its i-th lookup,
\* f being target_endpoints and misses: the next lookup is another step; after
\* the last one the request for the misses is sent and awaited (rpcs, empty
\* when the call began, gets the request).
RouteLoop(p, tbls, i, f) ==
    /\ target_endpoints' = [target_endpoints EXCEPT ![p] = f.target]
    /\ misses' = [misses EXCEPT ![p] = f.misses]
    /\ IF i < Len(tbls)
       THEN /\ idx' = [idx EXCEPT ![p] = i + 1]
            /\ pc' = [pc EXCEPT ![p] = "route_find"]
            /\ UNCHANGED rpcs
       ELSE /\ idx' = [idx EXCEPT ![p] = 0]
            /\ pc' = [pc EXCEPT ![p] = "route_wait"]
            /\ rpcs' = [rpcs EXCEPT ![p] = Append(@, RouteRequest(f.misses))]

\* route, line 53: target_endpoints starts as the default endpoint at every
\* index, misses empty.
RouteLocals0(tbls) ==
    [target |-> [i \in 1..Len(tbls) |-> DefaultEndpoint], misses |-> <<>>]

\* route begins (lines 53-60) and looks its first table up in the cache.
RouteStart(p, tbls) ==
    /\ tables' = [tables EXCEPT ![p] = tbls]
    /\ evicted0' = [evicted0 EXCEPT ![p] = evicted]
    /\ cache0' = [cache0 EXCEPT ![p] = cache]
    /\ resp0' = [resp0 EXCEPT ![p] = <<>>]
    /\ IF tbls = <<>>
       THEN RouteLoop(p, tbls, 0, RouteLocals0(tbls))
       ELSE RouteLoop(p, tbls, 1,
                      FindFromCache(cache, tbls, 1, RouteLocals0(tbls).target,
                                    RouteLocals0(tbls).misses))

\* route begins (line 53), in the step that set the router's cell: the first
\* lookup is the next step.
RouteBegin(p) ==
    /\ RouteLoop(p, tables[p], 0, RouteLocals0(tables[p]))
    /\ UNCHANGED <<tables, evicted0, cache0, resp0>>

\* Locals of write, reset when a new call begins.
ResetWrite(p) ==
    /\ parts' = [parts EXCEPT ![p] = <<>>]
    /\ no_ep' = [no_ep EXCEPT ![p] = <<>>]
    /\ sent' = [sent EXCEPT ![p] = <<>>]
    /\ evicts' = [evicts EXCEPT ![p] = <<>>]
    /\ completed' = [completed EXCEPT ![p] = <<>>]
    /\ route_based_error' = [route_based_error EXCEPT ![p] = From(<<>>, overflow_checks)]

\* Locals of sql_query and get_or_create, reset when a new call begins.
ResetQuery(p) ==
    /\ endpoint' = [endpoint EXCEPT ![p] = None]
    /\ client' = [client EXCEPT ![p] = NoClient]
    /\ qsent' = [qsent EXCEPT ![p] = <<>>]

\* The locals of route before route runs.
RouteIdle(p, tbls) ==
    /\ tables' = [tables EXCEPT ![p] = tbls]
    /\ target_endpoints' = [target_endpoints EXCEPT ![p] = <<>>]
    /\ misses' = [misses EXCEPT ![p] = <<>>]
    /\ rpcs' = [rpcs EXCEPT ![p] = <<>>]
    /\ evicted0' = [evicted0 EXCEPT ![p] = evicted]
    /\ cache0' = [cache0 EXCEPT ![p] = cache]
    /\ resp0' = [resp0 EXCEPT ![p] = <<>>]
    /\ idx' = [idx EXCEPT ![p] = 0]

CanCall(p, max) ==
    /\ pc[p] = "idle"
    /\ ncalls < max

\* The call returned: the caller has its result, the locals of the call are
\* dropped and the caller may call again.
Return(p) ==
    /\ pc[p] = "done"
    /\ pc' = [pc EXCEPT ![p] = "idle"]
    /\ op' = [op EXCEPT ![p] = None]
    /\ ret' = [ret EXCEPT ![p] = NoRet]
    /\ tables' = [tables EXCEPT ![p] = <<>>]
    /\ target_endpoints' = [target_endpoints EXCEPT ![p] = <<>>]
    /\ misses' = [misses EXCEPT ![p] = <<>>]
    /\ rpcs' = [rpcs EXCEPT ![p] = <<>>]
    /\ evicted0' = [evicted0 EXCEPT ![p] = EmptyCache]
    /\ cache0' = [cache0 EXCEPT ![p] = EmptyCache]
    /\ resp0' = [resp0 EXCEPT ![p] = <<>>]
    /\ idx' = [idx EXCEPT ![p] = 0]
    /\ ResetWrite(p)
    /\ ResetQuery(p)
    /\ database' = [database EXCEPT ![p] = TRUE]
    /\ UNCHANGED <<routerVars, serverVars, ncalls, clientVars, inner_client, outerVars>>

\* A caller invokes Router::route: the call runs up to its first lookup in
\* the cache (router.rs lines 53-60).
RouteCall(p, tbls) ==
    /\ CanCall(p, MaxCalls)
    /\ ncalls' = ncalls + 1
    /\ op' = [op EXCEPT ![p] = "route"]
    /\ ret' = [ret EXCEPT ![p] = NoRet]
    /\ RouteStart(p, tbls)
    /\ ResetWrite(p)
    /\ ResetQuery(p)
    /\ UNCHANGED <<routerVars, serverVars, database, clientVars, inner_client, outerVars>>

\* route looks its next table up in the cache (router.rs lines 58-68) and,
\* after the last one, sends the request for the misses (lines 72-76).
RouteGet(p) ==
    /\ pc[p] = "route_find"
    /\ RouteLoop(p, tables[p], idx[p],
                 FindFromCache(cache, tables[p], idx[p], target_endpoints[p], misses[p]))
    /\ UNCHANGED <<routerVars, serverVars, op, ret, ncalls, database, tables, evicted0,
                   cache0, resp0, writeLocals, clientVars, queryLocals, inner_client,
                   outerVars>>

\* self.router.get_or_try_init(|| self.init_router()) followed by
\* router_handle.route(tables), up to the first await (sql_query lines 68-70,
\* write line 98).  An initialised cell gives the router at once and route
\* runs up to its first lookup.  Otherwise the caller needs the cell's permit:
\* it takes it and init_router runs up to factory.build().await, or, the
\* permit being held by an initialisation in flight, it waits.
GetOrTryInit(p, tbls) ==
    IF router # None
    THEN /\ RouteStart(p, tbls)
         /\ UNCHANGED init_permit
    ELSE /\ RouteIdle(p, tbls)
         /\ IF init_permit = None
            THEN /\ init_permit' = p
                 /\ pc' = [pc EXCEPT ![p] = "router_init"]
            ELSE /\ pc' = [pc EXCEPT ![p] = "router_wait"]
                 /\ UNCHANGED init_permit

\* Mutant of WriteCall: the database of the context is not resolved before
\* the router is asked.
WriteCallNoResolve(p, order, db, max) ==
    /\ CanCall(p, max)
    /\ ncalls' = ncalls + 1
    /\ op' = [op EXCEPT ![p] = "write"]
    /\ database' = [database EXCEPT ![p] = db]
    /\ ret' = [ret EXCEPT ![p] = NoRet]
    /\ GetOrTryInit(p, order)
    /\ ResetWrite(p)
    /\ ResetQuery(p)
    /\ UNCHANGED <<routerVars, serverVars, router, routers_built, pool, built,
                   inner_client, outerVars>>

\* A caller invokes write (lines 93-99): a context without database (db
\* false) ends the call at once (resolve_database, line 94); otherwise
\* should_routes are the keys of the request, in the map's iteration order;
\* then the router, then route, up to the first await or lookup.  The run
\* has at most max calls.
WriteCall(p, order, db, max) ==
    /\ CanCall(p, max)
    /\ ncalls' = ncalls + 1
    /\ op' = [op EXCEPT ![p] = "write"]
    /\ database' = [database EXCEPT ![p] = db]
    /\ IF ~db
       THEN /\ ret' = [ret EXCEPT ![p] = Err(NoDatabaseError)]
            /\ pc' = [pc EXCEPT ![p] = "done"]
            /\ RouteIdle(p, order)
            /\ UNCHANGED init_permit
       ELSE /\ ret' = [ret EXCEPT ![p] = NoRet]
            /\ GetOrTryInit(p, order)
    /\ ResetWrite(p)
    /\ ResetQuery(p)
    /\ UNCHANGED <<routerVars, serverVars, router, routers_built, pool, built,
                   inner_client, outerVars>>

\* Mutant of RouterInitOk: the permit is given back and the cell is left
\* empty, so that the next caller initialises again.
RouterInitOkUnset(p) ==
    /\ pc[p] = "router_init"
    /\ init_permit = p
    /\ init_permit' = None
    /\ routers_built' = routers_built + 1
    /\ RouteBegin(p)
    /\ UNCHANGED <<routerVars, serverVars, op, ret, ncalls, database, writeLocals,
                   router, pool, built, queryLocals, inner_client, outerVars>>

\* init_router succeeds (lines 47-54): the router client was built and
\* router_endpoint parses; the cell is set, the permit is given back, and the
\* caller goes on with route.
RouterInitOk(p) ==
    /\ pc[p] = "router_init"
    /\ init_permit = p
    /\ FromStr(router_endpoint).ok
    /\ router' = "RouterImpl"
    /\ init_permit' = None
    /\ routers_built' = routers_built + 1
    /\ RouteBegin(p)
    /\ UNCHANGED <<routerVars, serverVars, op, ret, ncalls, database, writeLocals,
                   pool, built, queryLocals, inner_client, outerVars>>

\* Mutant of RouterInitFail: write goes on and routes although the router
\* could not be initialised.
RouterInitFailGoesOn(p, e) ==
    /\ pc[p] = "router_init"
    /\ init_permit = p
    /\ init_permit' = None
    /\ RouteBegin(p)
    /\ UNCHANGED <<routerVars, serverVars, op, ret, ncalls, database, writeLocals,
                   router, routers_built, pool, built, queryLocals, inner_client,
                   outerVars>>

\* Mutant of RouterInitFail: the permit is not given back.
RouterInitFailKeepsPermit(p, e) ==
    /\ pc[p] = "router_init"
    /\ init_permit = p
    /\ \/ e = ConnectError
       \/ ~FromStr(router_endpoint).ok /\ e = ParseEndpointError(router_endpoint)
    /\ pc' = [pc EXCEPT ![p] = "done"]
    /\ ret' = [ret EXCEPT ![p] = Err(e)]
    /\ UNCHANGED <<routerVars, serverVars, op, ncalls, database, routeLocals, idx,
                   writeLocals, clientVars, queryLocals, inner_client, outerVars>>

\* init_router fails: factory.build failed (line 47), or the router client
\* was built and router_endpoint does not parse (lines 48-53).  The permit is
\* given back, the cell stays empty and the call returns the error (`?`,
\* lines 68 and 98): Error::Connect of the build, or the Error::Client made
\* of the parse error.
RouterInitFail(p, e) ==
    /\ pc[p] = "router_init"
    /\ init_permit = p
    /\ \/ e = ConnectError
       \/ ~FromStr(router_endpoint).ok /\ e = ParseEndpointError(router_endpoint)
    /\ init_permit' = None
    /\ pc' = [pc EXCEPT ![p] = "done"]
    /\ ret' = [ret EXCEPT ![p] = Err(e)]
    /\ UNCHANGED <<routerVars, serverVars, op, ncalls, database, routeLocals, idx,
                   writeLocals, router, routers_built, pool, built, queryLocals,
                   inner_client, outerVars>>

\* A caller that waited for the permit goes on: the cell was set meanwhile
\* and it routes, or the initialisation it waited for failed and it takes
\* the permit to initialise itself.
RouterWake(p) ==
    /\ pc[p] = "router_wait"
    /\ init_permit = None
    /\ GetOrTryInit(p, tables[p])
    /\ UNCHANGED <<routerVars, serverVars, op, ret, ncalls, database, writeLocals,
                   router, routers_built, pool, built, queryLocals, inner_client,
                   outerVars>>

\* Mutant of RouteFail: a failed remote call evicts the requested tables.
RouteFailEvicts(p, e) ==
    /\ pc[p] = "route_wait"
    /\ pc' = [pc EXCEPT ![p] = "done"]
    /\ ret' = [ret EXCEPT ![p] = Err(e)]
    /\ cache' = [t \in Tables |-> IF t \in Range(tables[p]) THEN None ELSE cache[t]]
    /\ UNCHANGED <<evicted, serverVars, op, ncalls, database, routeLocals, idx,
                   writeLocals, clientVars, queryLocals, inner_client, outerVars>>

\* The remote route call fails (router.rs line 76, `?`): route returns the
\* error, and so does a write or a query that called it (route_based.rs
\* lines 70 and 99, `?`).
RouteFail(p, e) ==
    /\ pc[p] = "route_wait"
    /\ pc' = [pc EXCEPT ![p] = "done"]
    /\ ret' = [ret EXCEPT ![p] = Err(e)]
    /\ UNCHANGED <<routerVars, serverVars, op, ncalls, database, routeLocals, idx,
                   writeLocals, clientVars, queryLocals, inner_client, outerVars>>

\* write, lines 176-181, pairs being tables_result_pairs: the aggregation and
\* the value returned.
WriteEnd(p, pairs) ==
    /\ route_based_error' = [route_based_error EXCEPT ![p] = From(pairs, overflow_checks)]
    /\ ret' = [ret EXCEPT ![p] = WriteResult(pairs, overflow_checks)]
    /\ pc' = [pc EXCEPT ![p] = "done"]
    /\ idx' = [idx EXCEPT ![p] = 0]

\* write after join_all returned (lines 142-181), ps being the partitions
\* with their results: the unroutable tables are appended, the tables to
\* evict are collected; they are evicted one by one, in steps of their own,
\* and without any the write runs to its end.
WriteFinish(p, ps, noep) ==
    LET pairs == TablesResultPairs(ps, noep)
        ev == Evicts(pairs)
    IN  /\ evicts' = [evicts EXCEPT ![p] = ev]
        /\ IF ev = <<>>
           THEN WriteEnd(p, pairs)
           ELSE /\ pc' = [pc EXCEPT ![p] = "evict_loop"]
                /\ idx' = [idx EXCEPT ![p] = 1]
                /\ UNCHANGED <<route_based_error, ret>>

\* write, lines 101-122, and lines 142-181 when there is no partition: the
\* endpoints eps of route are partitioned; the partitions are enumerated in
\* the iteration order of partition_by_endpoint, the tables of each in the
\* iteration order of its point_groups.  The pool is asked for the client of
\* the first partition in the next step.
Dispatch(p, tbls, eps) ==
    \E order \in Perms(DOMAIN PartitionByEndpoint(eps, tbls)),
       keys \in KeyOrders(PartitionByEndpoint(eps, tbls)) :
        LET ps == ClientReqPairs(p, eps, tbls, order, keys)
            noep == NoCorrespondingEndpoints(eps, tbls)
        IN  /\ parts' = [parts EXCEPT ![p] = ps]
            /\ no_ep' = [no_ep EXCEPT ![p] = noep]
            /\ sent' = [sent EXCEPT ![p] = <<>>]
            /\ completed' = [completed EXCEPT ![p] = <<>>]
            /\ IF ps = <<>>
               THEN WriteFinish(p, ps, noep)
               ELSE /\ evicts' = [evicts EXCEPT ![p] = <<>>]
                    /\ route_based_error' =
                         [route_based_error EXCEPT ![p] = From(<<>>, overflow_checks)]
                    /\ ret' = [ret EXCEPT ![p] = NoRet]
                    /\ pc' = [pc EXCEPT ![p] = "pool_get"]
                    /\ idx' = [idx EXCEPT ![p] = 1]

\* Mutant of QueryTakeFirst: the query goes to the default endpoint.
QueryTakeFirstToDefault(p, eps) ==
    /\ ret' = [ret EXCEPT ![p] = NoRet]
    /\ pc' = [pc EXCEPT ![p] = "pool_get"]
    /\ idx' = [idx EXCEPT ![p] = 0]
    /\ endpoint' = [endpoint EXCEPT ![p] = DefaultEndpoint]
    /\ client' = [client EXCEPT ![p] = NoClient]
    /\ qsent' = [qsent EXCEPT ![p] = <<>>]

\* What sql_query does with the endpoints `eps` route returned (lines 70-83):
\* without endpoint for the first table it ends with a local error, else that
\* endpoint is the one whose client the pool is asked for in the next step.
QueryTakeFirst(p, eps) ==
    IF eps[1] = None
    THEN /\ ret' = [ret EXCEPT ![p] =
                      Err(UnknownError("table doesn't have corresponding endpoint"))]
         /\ pc' = [pc EXCEPT ![p] = "done"]
         /\ idx' = [idx EXCEPT ![p] = 0]
         /\ ResetQuery(p)
    ELSE /\ ret' = [ret EXCEPT ![p] = NoRet]
         /\ pc' = [pc EXCEPT ![p] = "pool_get"]
         /\ idx' = [idx EXCEPT ![p] = 0]
         /\ endpoint' = [endpoint EXCEPT ![p] = eps[1]]
         /\ client' = [client EXCEPT ![p] = NoClient]
         /\ qsent' = [qsent EXCEPT ![p] = <<>>]

\* route returns Ok(target) to its caller (router.rs line 94), which is the
\* user of the Router, a write (route_based.rs line 99) or a query
\* (line 70); o is the call in progress, tbls its tables.
RouteReturn(p, o, tbls, target) ==
    /\ target_endpoints' = [target_endpoints EXCEPT ![p] = target]
    /\ IF o = "write"
       THEN /\ Dispatch(p, tbls, target)
            /\ UNCHANGED queryLocals
       ELSE IF o = "query"
       THEN /\ QueryTakeFirst(p, target)
            /\ UNCHANGED writeLocals
       ELSE /\ ret' = [ret EXCEPT ![p] = Ok(target)]
            /\ pc' = [pc EXCEPT ![p] = "done"]
            /\ idx' = [idx EXCEPT ![p] = 0]
            /\ UNCHANGED <<writeLocals, queryLocals>>

\* route takes up the entry j of the response `routes` (router.rs
\* lines 78-94); after the last entry, and at once when the response is
\* empty, route returns.  The locals `misses` and the response are dropped
\* with the return of route, unless route is the call itself.
RouteFillStep(p, routes, j) ==
    LET r == IF j <= Len(routes)
             THEN FillMisses(routes[j], misses[p], cache, target_endpoints[p])
             ELSE [ok |-> TRUE, cache |-> cache, target |-> target_endpoints[p],
                   inserted |-> {}]
        keep == op[p] = "route"
    IN  /\ cache' = r.cache
        /\ evicted' = InsertHistory(evicted, r.inserted)
        /\ IF ~r.ok
           THEN /\ ret' = [ret EXCEPT ![p] =
                             Err(UnknownError("Unknown table:" \o routes[j].table
                                              \o " in response"))]
                /\ pc' = [pc EXCEPT ![p] = "done"]
                /\ idx' = [idx EXCEPT ![p] = 0]
                /\ resp0' = [resp0 EXCEPT ![p] = IF keep THEN routes ELSE <<>>]
                /\ misses' = [misses EXCEPT ![p] = IF keep THEN @ ELSE <<>>]
                /\ UNCHANGED <<target_endpoints, writeLocals, queryLocals>>
           ELSE IF j < Len(routes)
           THEN /\ target_endpoints' = [target_endpoints EXCEPT ![p] = r.target]
                /\ resp0' = [resp0 EXCEPT ![p] = routes]
                /\ idx' = [idx EXCEPT ![p] = j + 1]
                /\ pc' = [pc EXCEPT ![p] = "route_fill"]
                /\ UNCHANGED <<ret, misses, writeLocals, queryLocals>>
           ELSE /\ RouteReturn(p, op[p], tables[p], r.target)
                /\ resp0' = [resp0 EXCEPT ![p] = IF keep THEN routes ELSE <<>>]
                /\ misses' = [misses EXCEPT ![p] = IF keep THEN @ ELSE <<>>]
        /\ UNCHANGED <<serverVars, op, ncalls, database, tables, rpcs, evicted0, cache0,
                       clientVars, inner_client, outerVars>>

\* The remote route call answers and the caller goes on with the answer at
\* once, up to its first entry (router.rs lines 76-91).
RouteReply(p) ==
    /\ pc[p] = "route_wait"
    /\ \E routes \in Responses(rpcs[p][1], route_table) : RouteFillStep(p, routes, 1)

\* The remote answers the route call of caller p; the answer is on its way.
RemoteAnswer(p) ==
    /\ pc[p] = "route_wait"
    /\ \E routes \in Responses(rpcs[p][1], route_table) :
         resp0' = [resp0 EXCEPT ![p] = routes]
    /\ pc' = [pc EXCEPT ![p] = "route_answered"]
    /\ UNCHANGED <<routerVars, serverVars, op, ret, ncalls, database, tables,
                   target_endpoints, misses, rpcs, evicted0, cache0, idx, writeLocals,
                   clientVars, queryLocals, inner_client, outerVars>>

\* The task of caller p is polled again and goes on with the answer it got,
\* up to its first entry.
RouteWake(p) ==
    /\ pc[p] = "route_answered"
    /\ RouteFillStep(p, resp0[p], 1)

\* route takes up the next entry of the response.
RouteFill(p) ==
    /\ pc[p] = "route_fill"
    /\ RouteFillStep(p, resp0[p], idx[p])

(* ----------------- get_or_create, in write and in sql_query ----------- *)

\* The endpoint whose client the caller asks the pool for: the one of the
\* partition its loop is at (write, lines 123-131), the first table's
\* (sql_query, line 85), the argument of get_or_create.
CurEp(p) == IF op[p] = "write" THEN parts[p][idx[p]].ep ELSE endpoint[p]

\* get_or_create returned the client h.  write goes on with the next
\* partition and, after the last one, with join_all; sql_query with
\* sql_query_internal of the client.
GotClient(p, h) ==
    /\ client' = [client EXCEPT ![p] = h]
    /\ IF op[p] = "write"
       THEN IF idx[p] < Len(parts[p])
            THEN /\ idx' = [idx EXCEPT ![p] = @ + 1]
                 /\ pc' = [pc EXCEPT ![p] = "pool_get"]
            ELSE /\ idx' = [idx EXCEPT ![p] = 1]
                 /\ pc' = [pc EXCEPT ![p] = "write_poll"]
       ELSE /\ pc' = [pc EXCEPT ![p] = IF op[p] = "query" THEN "inner_enter" ELSE "done"]
            /\ UNCHANGED idx

\* get_or_create, lines 200-203: the lookup; a hit returns the pooled client,
\* a miss goes on to the entry.
PoolLookup(p) ==
    /\ pc[p] = "pool_get"
    /\ IF PoolGet(pool, CurEp(p)) # NoClient
       THEN GotClient(p, PoolGet(pool, CurEp(p)))
       ELSE /\ pc' = [pc EXCEPT ![p] = "pool_entry"]
            /\ UNCHANGED <<client, idx>>
    /\ UNCHANGED <<routerVars, serverVars, op, ret, ncalls, database, routeLocals,
                   writeLocals, clientVars, endpoint, qsent, inner_client, outerVars>>

\* get_or_create after a miss (lines 205-211): under the entry's lock, a
\* client is constructed and pooled unless one was pooled meanwhile.
PoolEntry(p) ==
    /\ pc[p] = "pool_entry"
    /\ LET g == PoolEntryOrInsert(pool, built, CurEp(p)) IN
       /\ pool' = g.pool
       /\ built' = g.built
       /\ GotClient(p, g.client)
    /\ UNCHANGED <<routerVars, serverVars, op, ret, ncalls, database, routeLocals,
                   writeLocals, router, init_permit, routers_built, endpoint, qsent,
                   inner_client, outerVars>>

\* A caller invokes get_or_create (lines 199-203): the lookup; a hit returns
\* the pooled client, a miss goes on to the entry.
PoolCall(p, ep) ==
    /\ CanCall(p, MaxPoolCalls)
    /\ ncalls' = ncalls + 1
    /\ op' = [op EXCEPT ![p] = "get_or_create"]
    /\ ret' = [ret EXCEPT ![p] = NoRet]
    /\ endpoint' = [endpoint EXCEPT ![p] = ep]
    /\ client' = [client EXCEPT ![p] = PoolGet(pool, ep)]
    /\ pc' = [pc EXCEPT ![p] = IF PoolGet(pool, ep) # NoClient THEN "done" ELSE "pool_entry"]
    /\ UNCHANGED <<routerVars, serverVars, database, routeLocals, idx, writeLocals, qsent,
                   clientVars, inner_client, outerVars>>

(* ------------------ the InnerClient of a query or partition ----------- *)

\* The InnerClient the call of caller p uses: the one its RawImpl owns, or
\* the pooled client of its endpoint.
CellOf(p) == IF op[p] = "raw" THEN RawCell ELSE endpoint[p]

\* sql_query_internal or write_internal of the InnerClient `cell`, a client
\* of endpoint ep, for the caller p, from its beginning (the database is
\* there, the assertion of lines 57 and 81 passes) up to its first await.
InnerUse(p, cell, ep) ==
    LET r == InnerGetOrTryInit(inner_client[cell], p) IN
    /\ inner_client' = [inner_client EXCEPT ![cell] = r.cell]
    /\ pc' = [pc EXCEPT ![p] = IF r.at = "rpc" THEN "rpc_wait"
                               ELSE IF r.at = "init" THEN "inner_init"
                               ELSE "inner_wait"]
    /\ qsent' = [qsent EXCEPT ![p] = IF r.at = "rpc" THEN Append(@, ep) ELSE @]

\* sql_query calls sql_query_internal of the client it got (line 87).
InnerEnter(p) ==
    /\ pc[p] = "inner_enter"
    /\ InnerUse(p, CellOf(p), endpoint[p])
    /\ UNCHANGED <<routerVars, serverVars, op, ret, ncalls, database, routeLocals, idx,
                   writeLocals, clientVars, endpoint, client, outerVars>>

\* The end of sql_query after sql_query_internal returned `outcome`
\* (lines 87-90), ev being the tables map_err hands to evict: they are
\* evicted one by one, in steps of their own, before the call returns.
QueryEnd(p, outcome, ev) ==
    /\ ret' = [ret EXCEPT ![p] = outcome]
    /\ evicts' = [evicts EXCEPT ![p] = ev]
    /\ IF ev = <<>>
       THEN /\ pc' = [pc EXCEPT ![p] = "done"]
            /\ idx' = [idx EXCEPT ![p] = 0]
       ELSE /\ pc' = [pc EXCEPT ![p] = "evict_loop"]
            /\ idx' = [idx EXCEPT ![p] = 1]

\* init succeeds (inner.rs lines 49-51): the cell is set, the permit is given
\* back and the RPC is sent.
InnerInitOk(p) ==
    /\ pc[p] = "inner_init"
    /\ inner_client' = [inner_client EXCEPT ![CellOf(p)].value = "RpcClient",
                                            ![CellOf(p)].permit = None,
                                            ![CellOf(p)].built = @ + 1]
    /\ pc' = [pc EXCEPT ![p] = "rpc_wait"]
    /\ qsent' = [qsent EXCEPT ![p] = Append(@, endpoint[p])]
    /\ UNCHANGED <<routerVars, serverVars, op, ret, ncalls, database, routeLocals, idx,
                   writeLocals, clientVars, endpoint, client, outerVars>>

\* init fails (factory.build): the permit is given back, the cell stays empty
\* and the error is what sql_query_internal or write_internal returns (`?`,
\* lines 59, 84); a query of RouteBasedImpl evicts its tables (route_based.rs
\* lines 88-90).
InnerInitFail(p, e) ==
    /\ pc[p] = "inner_init"
    /\ inner_client' = [inner_client EXCEPT ![CellOf(p)].permit = None]
    /\ IF op[p] = "query"
       THEN QueryEnd(p, Err(e), tables[p])
       ELSE /\ ret' = [ret EXCEPT ![p] = Err(e)]
            /\ pc' = [pc EXCEPT ![p] = "done"]
            /\ UNCHANGED <<evicts, idx>>
    /\ UNCHANGED <<routerVars, serverVars, op, ncalls, database, routeLocals, parts,
                   no_ep, sent, completed, route_based_error, clientVars, queryLocals,
                   outerVars>>

\* A user that waited for the permit goes on: the cell was set meanwhile and
\* it sends its RPC, or the build it waited for failed and it builds itself.
InnerWake(p) ==
    /\ pc[p] = "inner_wait"
    /\ inner_client[CellOf(p)].permit = None
    /\ InnerUse(p, CellOf(p), endpoint[p])
    /\ UNCHANGED <<routerVars, serverVars, op, ret, ncalls, database, routeLocals, idx,
                   writeLocals, clientVars, endpoint, client, outerVars>>

\* The RPC of a user of an InnerClient completes (inner.rs lines 69-73,
\* 93-96) and its call returns the outcome.
InnerRpcReply(p, outcome) ==
    /\ pc[p] = "rpc_wait"
    /\ op[p] \in {"inner", "raw"}
    /\ pc' = [pc EXCEPT ![p] = "done"]
    /\ ret' = [ret EXCEPT ![p] = outcome]
    /\ UNCHANGED <<routerVars, serverVars, op, ncalls, database, routeLocals, idx,
                   writeLocals, clientVars, queryLocals, inner_client, outerVars>>

\* Mutant of QueryReply: the tables are evicted only when the server says
\* the route is stale, as write does.
QueryReplyEvictsStale(p, outcome) ==
    /\ pc[p] = "rpc_wait"
    /\ op[p] = "query"
    /\ QueryEnd(p, outcome,
                IF /\ outcome.st = "err"
                   /\ outcome.err.kind = "Server"
                   /\ should_refresh(outcome.err.code, outcome.err.msg)
                THEN tables[p] ELSE <<>>)
    /\ UNCHANGED <<routerVars, serverVars, op, ncalls, database, routeLocals, parts,
                   no_ep, sent, completed, route_based_error, clientVars, queryLocals,
                   inner_client, outerVars>>

\* Mutant of QueryReply: the tables are evicted whatever the outcome.
QueryReplyEvictsAlways(p, outcome) ==
    /\ pc[p] = "rpc_wait"
    /\ op[p] = "query"
    /\ QueryEnd(p, outcome, tables[p])
    /\ UNCHANGED <<routerVars, serverVars, op, ncalls, database, routeLocals, parts,
                   no_ep, sent, completed, route_based_error, clientVars, queryLocals,
                   inner_client, outerVars>>

\* The RPC of sql_query_internal completes with `outcome` (inner.rs
\* lines 69-73) and sql_query takes it up (route_based.rs lines 87-90): on
\* any error the router is told to evict all tables of the request, and the
\* error is returned as it is.
QueryReply(p, outcome) ==
    /\ pc[p] = "rpc_wait"
    /\ op[p] = "query"
    /\ QueryEnd(p, outcome, IF outcome.st = "err" THEN tables[p] ELSE <<>>)
    /\ UNCHANGED <<routerVars, serverVars, op, ncalls, database, routeLocals, parts,
                   no_ep, sent, completed, route_based_error, clientVars, queryLocals,
                   inner_client, outerVars>>

(* ------------------- write: the partitions' futures -------------------- *)

\* join_all polls the futures for the first time, in order (line 140): the
\* write_internal of the partition at idx runs up to its first await.
WritePoll(p) ==
    /\ pc[p] = "write_poll"
    /\ LET i == idx[p]
           ep == parts[p][i].ep
           r == InnerGetOrTryInit(inner_client[ep], p)
       IN  /\ inner_client' = [inner_client EXCEPT ![ep] = r.cell]
           /\ parts' = [parts EXCEPT ![p][i].at = r.at]
           /\ sent' = [sent EXCEPT ![p] = Append(@, [ep |-> ep, req |-> parts[p][i].req])]
           /\ IF i < Len(parts[p])
              THEN /\ idx' = [idx EXCEPT ![p] = i + 1]
                   /\ UNCHANGED pc
              ELSE /\ idx' = [idx EXCEPT ![p] = 0]
                   /\ pc' = [pc EXCEPT ![p] = "write_join"]
    /\ UNCHANGED <<routerVars, serverVars, op, ret, ncalls, database, routeLocals, no_ep,
                   evicts, completed, route_based_error, clientVars, queryLocals,
                   outerVars>>

\* The build of partition i's transport client succeeds (inner.rs
\* lines 49-51): the cell is set, the permit is given back and the
\* partition's RPC is sent.
PartInitOk(p, i) ==
    /\ pc[p] = "write_join"
    /\ i \in 1..Len(parts[p])
    /\ parts[p][i].at = "init"
    /\ inner_client' = [inner_client EXCEPT ![parts[p][i].ep].value = "RpcClient",
                                            ![parts[p][i].ep].permit = None,
                                            ![parts[p][i].ep].built = @ + 1]
    /\ parts' = [parts EXCEPT ![p][i].at = "rpc"]
    /\ UNCHANGED <<routerVars, serverVars, pc, op, ret, ncalls, database, routeLocals, idx,
                   no_ep, sent, evicts, completed, route_based_error, clientVars,
                   queryLocals, outerVars>>

\* A partition that waited for the permit goes on: the cell was set meanwhile
\* and it sends its RPC, or the build it waited for failed and it builds
\* itself.
PartWake(p, i) ==
    /\ pc[p] = "write_join"
    /\ i \in 1..Len(parts[p])
    /\ parts[p][i].at = "wait"
    /\ inner_client[parts[p][i].ep].permit = None
    /\ LET r == InnerGetOrTryInit(inner_client[parts[p][i].ep], p) IN
       /\ inner_client' = [inner_client EXCEPT ![parts[p][i].ep] = r.cell]
       /\ parts' = [parts EXCEPT ![p][i].at = r.at]
    /\ UNCHANGED <<routerVars, serverVars, pc, op, ret, ncalls, database, routeLocals, idx,
                   no_ep, sent, evicts, completed, route_based_error, clientVars,
                   queryLocals, outerVars>>

\* The write_internal of partition i returns `outcome` (lines 139-146).  When
\* it is the last one, join_all returns and write goes on (lines 142-173).
PartDone(p, i, outcome) ==
    LET ps == [parts[p] EXCEPT ![i].result = outcome, ![i].at = "done"] IN
    /\ parts' = [parts EXCEPT ![p] = ps]
    /\ completed' = [completed EXCEPT ![p] = Append(@, i)]
    /\ IF JoinAllReady(ps)
       THEN WriteFinish(p, ps, no_ep[p])
       ELSE UNCHANGED <<evicts, route_based_error, ret, pc, idx>>

\* The build of partition i's transport client fails (factory.build): the
\* permit is given back, the cell stays empty and the error is the result of
\* the partition (`?`, inner.rs line 84).
PartInitFail(p, i, e) ==
    /\ pc[p] = "write_join"
    /\ i \in 1..Len(parts[p])
    /\ parts[p][i].at = "init"
    /\ inner_client' = [inner_client EXCEPT ![parts[p][i].ep].permit = None]
    /\ PartDone(p, i, Err(e))
    /\ UNCHANGED <<routerVars, serverVars, op, ncalls, database, routeLocals, no_ep, sent,
                   clientVars, queryLocals, outerVars>>

\* Mutant of WriteReply: a partition that failed with a stale route is sent
\* again and awaited again.
WriteReplyRetriesStale(p, i, outcome) ==
    /\ pc[p] = "write_join"
    /\ i \in 1..Len(parts[p])
    /\ parts[p][i].at = "rpc"
    /\ IF /\ outcome.st = "err"
          /\ outcome.err.kind = "Server"
          /\ should_refresh(outcome.err.code, outcome.err.msg)
       THEN /\ sent' = [sent EXCEPT ![p] = Append(@, [ep |-> parts[p][i].ep,
                                                      req |-> parts[p][i].req])]
            /\ UNCHANGED <<parts, completed, evicts, route_based_error, ret, pc, idx>>
       ELSE /\ PartDone(p, i, outcome)
            /\ UNCHANGED sent
    /\ UNCHANGED <<routerVars, serverVars, op, ncalls, database, routeLocals, no_ep,
                   clientVars, queryLocals, inner_client, outerVars>>

\* The RPC of partition i completes with `outcome` (inner.rs lines 93-96),
\* which is what its write_internal returns.
WriteReply(p, i, outcome) ==
    /\ pc[p] = "write_join"
    /\ i \in 1..Len(parts[p])
    /\ parts[p][i].at = "rpc"
    /\ PartDone(p, i, outcome)
    /\ UNCHANGED <<routerVars, serverVars, op, ncalls, database, routeLocals, no_ep, sent,
                   clientVars, queryLocals, inner_client, outerVars>>

(* ------------------------------ evict --------------------------------- *)

\* The tables handed to evict: the argument of Router::evict, `evicts` of
\* write (line 174), the tables of the failed query (line 88).
EvictList(p) == IF op[p] = "evict" THEN tables[p] ELSE evicts[p]

\* evict removes the next table from the cache (router.rs lines 98-100);
\* after the last one evict returns, and with it the query; the write
\* aggregates and returns (route_based.rs lines 176-181).
EvictStep(p) ==
    /\ pc[p] = "evict_loop"
    /\ cache' = EvictCache(cache, EvictList(p)[idx[p]])
    /\ evicted' = EvictHistory(cache, evicted, EvictList(p)[idx[p]])
    /\ IF idx[p] < Len(EvictList(p))
       THEN /\ idx' = [idx EXCEPT ![p] = @ + 1]
            /\ UNCHANGED <<pc, ret, route_based_error>>
       ELSE IF op[p] = "write"
       THEN WriteEnd(p, TablesResultPairs(parts[p], no_ep[p]))
       ELSE /\ pc' = [pc EXCEPT ![p] = "done"]
            /\ idx' = [idx EXCEPT ![p] = 0]
            /\ UNCHANGED <<ret, route_based_error>>
    /\ UNCHANGED <<serverVars, op, ncalls, database, routeLocals, parts, no_ep, sent,
                   evicts, completed, clientVars, queryLocals, inner_client, outerVars>>

\* A caller invokes Router::evict (router.rs lines 97-101), which removes the
\* first table; an empty list returns at once.
EvictCall(p, ms) ==
    /\ CanCall(p, MaxCalls)
    /\ ncalls' = ncalls + 1
    /\ op' = [op EXCEPT ![p] = "evict"]
    /\ ret' = [ret EXCEPT ![p] = NoRet]
    /\ tables' = [tables EXCEPT ![p] = ms]
    /\ target_endpoints' = [target_endpoints EXCEPT ![p] = <<>>]
    /\ misses' = [misses EXCEPT ![p] = <<>>]
    /\ rpcs' = [rpcs EXCEPT ![p] = <<>>]
    /\ evicted0' = [evicted0 EXCEPT ![p] = evicted]
    /\ cache0' = [cache0 EXCEPT ![p] = cache]
    /\ resp0' = [resp0 EXCEPT ![p] = <<>>]
    /\ ResetWrite(p)
    /\ ResetQuery(p)
    /\ IF ms = <<>>
       THEN /\ pc' = [pc EXCEPT ![p] = "done"]
            /\ idx' = [idx EXCEPT ![p] = 0]
            /\ UNCHANGED <<cache, evicted>>
       ELSE /\ cache' = EvictCache(cache, ms[1])
            /\ evicted' = EvictHistory(cache, evicted, ms[1])
            /\ IF Len(ms) = 1
               THEN /\ pc' = [pc EXCEPT ![p] = "done"]
                    /\ idx' = [idx EXCEPT ![p] = 0]
               ELSE /\ pc' = [pc EXCEPT ![p] = "evict_loop"]
                    /\ idx' = [idx EXCEPT ![p] = 2]
    /\ UNCHANGED <<serverVars, database, clientVars, inner_client, outerVars>>

(* ------------------------------ the server ----------------------------- *)

\* The server moves a table to another endpoint, or drops its route.
ChangeRoute(t, e) ==
    /\ nchanges < MaxChanges
    /\ route_table[t] # e
    /\ nchanges' = nchanges + 1
    /\ route_table' = [route_table EXCEPT ![t] = e]
    /\ UNCHANGED <<routerVars, pc, op, ret, ncalls, database, routeLocals, idx,
                   writeLocals, clientVars, queryLocals, inner_client, outerVars>>

\* A change of the routing table between two calls.  A call reads the
\* routing table only through the answer to its route request, so a change
\* during a call acts as one just before it or just after it.
ChangeRouteBetweenCalls(t, e) ==
    /\ \A p \in Procs : pc[p] = "idle"
    /\ ChangeRoute(t, e)

(* ---------------------- the calls and their inputs --------------------- *)

\* What init_router may fail with when router_endpoint is well formed, and
\* what the build of a transport client may fail with: factory.build's error
\* (route_based.rs line 47, inner.rs line 49).
InitFailures == {ConnectError}

WriteOutcomes == {Ok(r) : r \in WriteResponses} \cup {Err(e) : e \in WriteFailures}

\* Table lists a caller hands to write, the keys of a request in the order
\* they are enumerated: none, one, two or three tables, the table the server
\* has no route for (C) first, last or not at all.
WriteOrders ==
    {<<>>, <<"A">>, <<"A", "B">>, <<"B", "A">>, <<"C", "A">>, <<"A", "B", "C">>,
     <<"C", "B", "A">>}

\* The Router behind write is a stub (any implementation of the trait
\* Router): its route answers `eps`, one optional endpoint per table.  write,
\* lines 93-122.
StubWriteCall(p, order, eps) ==
    /\ CanCall(p, MaxStubWrites)
    /\ ncalls' = ncalls + 1
    /\ op' = [op EXCEPT ![p] = "write"]
    /\ tables' = [tables EXCEPT ![p] = order]
    /\ misses' = [misses EXCEPT ![p] = <<>>]
    /\ rpcs' = [rpcs EXCEPT ![p] = <<>>]
    /\ evicted0' = [evicted0 EXCEPT ![p] = evicted]
    /\ cache0' = [cache0 EXCEPT ![p] = cache]
    /\ resp0' = [resp0 EXCEPT ![p] = <<>>]
    /\ RouteReturn(p, "write", order, eps)
    /\ UNCHANGED <<routerVars, serverVars, database, clientVars, inner_client, outerVars>>

\* Router calls of one caller, one after the other, against a server whose
\* routing table changes.
Next ==
    \/ \E p \in SeqProcs, tbls \in SeqsUpTo(Tables, MaxRouteLen) : RouteCall(p, tbls)
    \/ \E p \in SeqProcs : RouteGet(p)
    \/ \E p \in SeqProcs, e \in RouteFailures : RouteFail(p, e)
    \/ \E p \in SeqProcs : RouteReply(p)
    \/ \E p \in SeqProcs : RouteFill(p)
    \/ \E p \in SeqProcs, ms \in SeqsUpTo(Tables, MaxRouteLen) : EvictCall(p, ms)
    \/ \E p \in SeqProcs : EvictStep(p)
    \/ \E p \in SeqProcs : Return(p)
    \/ \E t \in Tables, e \in RemoteEndpoints \cup {None} : ChangeRouteBetweenCalls(t, e)

Spec == Init /\ [][Next]_vars

\* The steps of a write after its call, for the callers P and the outcomes O
\* of a partition's RPC.
WriteSteps(P, O) ==
    \/ \E p \in P : PoolLookup(p)
    \/ \E p \in P : PoolEntry(p)
    \/ \E p \in P : WritePoll(p)
    \/ \E p \in P, i \in 1..Cardinality(Endpoints) : PartInitOk(p, i)
    \/ \E p \in P, i \in 1..Cardinality(Endpoints), e \in InitFailures : PartInitFail(p, i, e)
    \/ \E p \in P, i \in 1..Cardinality(Endpoints), o \in O : WriteReply(p, i, o)
    \/ \E p \in P : EvictStep(p)

\* The steps of RouterImpl::route after its beginning, for the callers P.
RouteSteps(P) ==
    \/ \E p \in P : RouteGet(p)
    \/ \E p \in P, e \in RouteFailures : RouteFail(p, e)
    \/ \E p \in P : RouteReply(p)
    \/ \E p \in P : RouteFill(p)

\* What a partition's RPC ends with behind RouterImpl: written, or one of
\* the failures.
RoutedWriteOutcomes ==
    {Ok([success |-> <<0, 5>>, failed |-> <<0, 0>>])} \cup {Err(e) : e \in WriteFailures}

\* Writes of one caller through RouterImpl.
NextWrite ==
    \/ \E p \in SeqProcs, order \in WriteOrders, db \in BOOLEAN : WriteCall(p, order, db, MaxWrites)
    \/ \E p \in SeqProcs : RouterInitOk(p)
    \/ \E p \in SeqProcs, e \in InitFailures : RouterInitFail(p, e)
    \/ RouteSteps(SeqProcs)
    \/ WriteSteps(SeqProcs, RoutedWriteOutcomes)
    \/ \E p \in SeqProcs : Return(p)
    \/ \E t \in Tables, e \in RemoteEndpoints \cup {None} : ChangeRouteBetweenCalls(t, e)

SpecWrite == Init /\ [][NextWrite]_vars

\* Writes of one caller through a stub Router.
NextStub ==
    \/ \E p \in SeqProcs, order \in WriteOrders :
         \E eps \in [1..Len(order) -> OptEndpoints] : StubWriteCall(p, order, eps)
    \/ WriteSteps(SeqProcs, WriteOutcomes)
    \/ \E p \in SeqProcs : Return(p)

SpecStub == Init /\ [][NextStub]_vars

\* Mutant of QueryCall: the tables are not looked at before the router is
\* asked.
QueryCallNoCheck(p, tbls, db) ==
    /\ CanCall(p, MaxQueries)
    /\ ncalls' = ncalls + 1
    /\ op' = [op EXCEPT ![p] = "query"]
    /\ database' = [database EXCEPT ![p] = db]
    /\ ret' = [ret EXCEPT ![p] = NoRet]
    /\ GetOrTryInit(p, tbls)
    /\ ResetWrite(p)
    /\ ResetQuery(p)
    /\ UNCHANGED <<routerVars, serverVars, router, routers_built, pool, built,
                   inner_client, outerVars>>

\* A caller invokes sql_query (lines 60-70): an empty table list and a
\* context without database (db false) end the call at once; otherwise the
\* router, then route, up to the first await or lookup.
QueryCall(p, tbls, db) ==
    /\ CanCall(p, MaxQueries)
    /\ ncalls' = ncalls + 1
    /\ op' = [op EXCEPT ![p] = "query"]
    /\ database' = [database EXCEPT ![p] = db]
    /\ IF tbls = <<>> \/ ~db
       THEN /\ ret' = [ret EXCEPT ![p] =
                         IF tbls = <<>>
                         THEN Err(UnknownError("tables in query request can't be empty in route based mode"))
                         ELSE Err(NoDatabaseError)]
            /\ pc' = [pc EXCEPT ![p] = "done"]
            /\ RouteIdle(p, tbls)
            /\ UNCHANGED init_permit
       ELSE /\ ret' = [ret EXCEPT ![p] = NoRet]
            /\ GetOrTryInit(p, tbls)
    /\ ResetWrite(p)
    /\ ResetQuery(p)
    /\ UNCHANGED <<routerVars, serverVars, router, routers_built, pool, built,
                   inner_client, outerVars>>

\* What sql_query_internal may fail with: the connect of the client, the
\* transport, the server's status, the conversion of the response.
QueryFailures ==
    { ConnectError,
      RpcError,
      ServerError(InvalidArgument, "Table 'B' not found"),
      ServerError(InternalError, "internal error"),
      AuthFailError,
      UnknownError("output is empty in sql query response") }

\* What the RPC of a query may end with: all of them but the failed connect,
\* which is the failure of the client's build.
QueryOutcomes == {Ok("rows")} \cup {Err(e) : e \in QueryFailures \ {ConnectError}}

\* The steps of a query after route returned, for the callers P and the
\* outcomes O of its RPC.
QuerySteps(P, O) ==
    \/ \E p \in P : PoolLookup(p)
    \/ \E p \in P : PoolEntry(p)
    \/ \E p \in P : InnerEnter(p)
    \/ \E p \in P : InnerInitOk(p)
    \/ \E p \in P, e \in InitFailures : InnerInitFail(p, e)
    \/ \E p \in P, o \in O : QueryReply(p, o)
    \/ \E p \in P : EvictStep(p)

\* Table lists a caller may hand to sql_query: none, one or two tables.
QueryInputs == SeqsUpTo(Tables, 2)

\* Queries of one caller.
NextQuery ==
    \/ \E p \in SeqProcs, tbls \in QueryInputs, db \in BOOLEAN :
         QueryCall(p, tbls, db)
    \/ \E p \in SeqProcs : RouterInitOk(p)
    \/ \E p \in SeqProcs, e \in InitFailures : RouterInitFail(p, e)
    \/ RouteSteps(SeqProcs)
    \/ QuerySteps(SeqProcs, QueryOutcomes)
    \/ \E p \in SeqProcs : Return(p)
    \/ \E t \in Tables, e \in RemoteEndpoints \cup {None} : ChangeRouteBetweenCalls(t, e)

SpecQuery == Init /\ [][NextQuery]_vars

\* What the callers that race for the router ask for, and what their RPCs
\* end with.
InitInputs == {<<"A">>}

InitWriteOutcomes == {Ok([success |-> <<0, 5>>, failed |-> <<0, 0>>]), Err(RpcError)}

InitQueryOutcomes == {Ok("rows"), Err(RpcError)}

\* The steps of writes and queries at once: those of each, and the wake-ups
\* of the callers and partitions that waited for a build.
SharedSteps(P) ==
    \/ \E p \in P : RouterWake(p)
    \/ RouteSteps(P)
    \/ \E p \in P : PoolLookup(p)
    \/ \E p \in P : PoolEntry(p)
    \/ \E p \in P : WritePoll(p)
    \/ \E p \in P, i \in 1..Cardinality(Endpoints) : PartInitOk(p, i)
    \/ \E p \in P, i \in 1..Cardinality(Endpoints), e \in InitFailures : PartInitFail(p, i, e)
    \/ \E p \in P, i \in 1..Cardinality(Endpoints) : PartWake(p, i)
    \/ \E p \in P, i \in 1..Cardinality(Endpoints), o \in InitWriteOutcomes : WriteReply(p, i, o)
    \/ \E p \in P : InnerEnter(p)
    \/ \E p \in P : InnerInitOk(p)
    \/ \E p \in P, e \in InitFailures : InnerInitFail(p, e)
    \/ \E p \in P : InnerWake(p)
    \/ \E p \in P, o \in InitQueryOutcomes : QueryReply(p, o)
    \/ \E p \in P : EvictStep(p)

\* Writes and queries of several callers at once, from the first use of the
\* client on.
NextInit ==
    \/ \E p \in Procs, order \in InitInputs, db \in BOOLEAN : WriteCall(p, order, db, MaxWrites)
    \/ \E p \in Procs, tbls \in InitInputs, db \in BOOLEAN : QueryCall(p, tbls, db)
    \/ \E p \in Procs : RouterInitOk(p)
    \/ \E p \in Procs, e \in InitFailures : RouterInitFail(p, e)
    \/ SharedSteps(Procs)
    \/ \E p \in Procs : Return(p)

SpecInit == Init /\ [][NextInit]_vars

\* Calls of the client pool by several callers at once.
NextPool ==
    \/ \E p \in Procs, ep \in Endpoints : PoolCall(p, ep)
    \/ \E p \in Procs : PoolEntry(p)
    \/ \E p \in Procs : Return(p)

SpecPool == Init /\ [][NextPool]_vars

\* Mutant of StubQueryCall: the first endpoint route gave for any table is
\* taken when the first table has none.
StubQueryCallAnyEndpoint(p, tbls, eps) ==
    /\ CanCall(p, MaxQueries)
    /\ ncalls' = ncalls + 1
    /\ op' = [op EXCEPT ![p] = "query"]
    /\ tables' = [tables EXCEPT ![p] = tbls]
    /\ target_endpoints' = [target_endpoints EXCEPT ![p] = eps]
    /\ misses' = [misses EXCEPT ![p] = <<>>]
    /\ rpcs' = [rpcs EXCEPT ![p] = <<>>]
    /\ evicted0' = [evicted0 EXCEPT ![p] = evicted]
    /\ cache0' = [cache0 EXCEPT ![p] = cache]
    /\ resp0' = [resp0 EXCEPT ![p] = <<>>]
    /\ QueryTakeFirst(p, SelectSeq(eps, LAMBDA e : e # None) \o <<None>>)
    /\ ResetWrite(p)
    /\ UNCHANGED <<routerVars, serverVars, database, clientVars, inner_client, outerVars>>

\* sql_query of a request with tables and database, behind a stub Router (any
\* implementation of the trait Router) whose route answers `eps`, one
\* optional endpoint per table (lines 70-83).
StubQueryCall(p, tbls, eps) ==
    /\ CanCall(p, MaxQueries)
    /\ ncalls' = ncalls + 1
    /\ op' = [op EXCEPT ![p] = "query"]
    /\ tables' = [tables EXCEPT ![p] = tbls]
    /\ misses' = [misses EXCEPT ![p] = <<>>]
    /\ rpcs' = [rpcs EXCEPT ![p] = <<>>]
    /\ evicted0' = [evicted0 EXCEPT ![p] = evicted]
    /\ cache0' = [cache0 EXCEPT ![p] = cache]
    /\ resp0' = [resp0 EXCEPT ![p] = <<>>]
    /\ RouteReturn(p, "query", tbls, eps)
    /\ UNCHANGED <<routerVars, serverVars, database, clientVars, inner_client, outerVars>>

\* Requests with at least one table.
StubQueryInputs == SeqsUpTo(Tables, 2) \ {<<>>}

\* Queries of one caller through a stub Router.
NextStubQuery ==
    \/ \E p \in SeqProcs, tbls \in StubQueryInputs :
         \E eps \in [1..Len(tbls) -> OptEndpoints] : StubQueryCall(p, tbls, eps)
    \/ QuerySteps(SeqProcs, QueryOutcomes)
    \/ \E p \in SeqProcs : Return(p)

SpecStubQuery == Init /\ [][NextStubQuery]_vars

(* -------------------- route_client.rs: RouteClientImpl --------------- *)

\* route, lines 57-73, one pass of the find loop, for the metric at index
\* i: one cache.get; a cached route is copied to its index, a miss goes into
\* the HashMap `misses`, and a metric that was a miss before ends the call
\* (dup).
RcFindFromCache(c, metrics, i, target, m) ==
    IF c[metrics[i]] # NoRoute
    THEN [dup |-> FALSE, target |-> [target EXCEPT ![i] = c[metrics[i]]], misses |-> m]
    ELSE [dup |-> metrics[i] \in DOMAIN m, target |-> target,
          misses |-> (metrics[i] :> i) @@ m]

\* route, lines 76-80, force_refresh: every metric is a miss, collected into
\* a map (a repeated metric keeps its last index).
RcAllMisses(metrics) ==
    [t \in Range(metrics) |-> Max({i \in 1..Len(metrics) : metrics[i] = t})]

\* route, lines 92-98, one pass of the fill loop, for the route r of the
\* response: a route for a metric that was not asked for ends the call;
\* otherwise the route goes into the cache unless the cache has an entry for
\* its metric (one cache.entry().or_insert()), and to the index of its metric.
RcFillMiss(r, m, c, target) ==
    IF r.metric \notin DOMAIN m
    THEN [ok |-> FALSE, cache |-> c, target |-> target]
    ELSE [ok |-> TRUE,
          cache |-> IF c[r.metric] = NoRoute THEN [c EXCEPT ![r.metric] = r] ELSE c,
          target |-> [target EXCEPT ![m[r.metric]] = r]]

\* The responses of the remote to a route request, as routes of metrics.
RcResponses(req, rt) ==
    { [i \in 1..Len(h) |-> [metric |-> h[i].table, endpoint |-> h[i].endpoint]] :
        h \in Responses(req, rt) }

\* route sends its request, the keys of `misses` (lines 84-87), and awaits
\* the answer.
RcSend(p, m) ==
    /\ rpcs' = [rpcs EXCEPT ![p] = <<DOMAIN m>>]
    /\ pc' = [pc EXCEPT ![p] = "rc_wait"]
    /\ idx' = [idx EXCEPT ![p] = 0]

\* route returns Ok(target_endpoints) (line 101); `refreshed` records what a
\* forced route returned for its metrics.
RcReturn(p, target) ==
    /\ ret' = [ret EXCEPT ![p] = Ok(target)]
    /\ pc' = [pc EXCEPT ![p] = "done"]
    /\ refreshed' =
         IF force_refresh[p]
         THEN [t \in Tables |->
                 IF \E i \in 1..Len(target) : target[i].metric = t
                 THEN <<(CHOOSE x \in Range(target) : x.metric = t).endpoint>>
                 ELSE refreshed[t]]
         ELSE refreshed

\* A caller invokes RouteClient::route (lines 45-56, 75-87): the call runs up
\* to its first lookup in the cache or, with force_refresh (or no metric at
\* all), up to the remote call.
RcRouteCall(p, metrics, force) ==
    /\ CanCall(p, MaxRcCalls)
    /\ ncalls' = ncalls + 1
    /\ op' = [op EXCEPT ![p] = "rc_route"]
    /\ ret' = [ret EXCEPT ![p] = NoRet]
    /\ force_refresh' = [force_refresh EXCEPT ![p] = force]
    /\ tables' = [tables EXCEPT ![p] = metrics]
    /\ target_endpoints' = [target_endpoints EXCEPT ![p] = [i \in 1..Len(metrics) |-> NoRoute]]
    /\ resp0' = [resp0 EXCEPT ![p] = <<>>]
    /\ IF force \/ metrics = <<>>
       THEN /\ misses' = [misses EXCEPT ![p] = IF force THEN RcAllMisses(metrics) ELSE <<>>]
            /\ RcSend(p, misses'[p])
       ELSE /\ misses' = [misses EXCEPT ![p] = <<>>]
            /\ rpcs' = [rpcs EXCEPT ![p] = <<>>]
            /\ pc' = [pc EXCEPT ![p] = "rc_find"]
            /\ idx' = [idx EXCEPT ![p] = 1]
    /\ UNCHANGED <<routerVars, serverVars, database, evicted0, cache0, writeLocals,
                   clientVars, queryLocals, inner_client, rc_cache, refreshed, pureVars,
                   configVars>>

\* route looks its next metric up in the cache (lines 57-73): a metric that
\* misses twice ends the call; after the last metric the request for the
\* misses is sent (lines 84-87).
RcGet(p) ==
    LET f == RcFindFromCache(rc_cache, tables[p], idx[p], target_endpoints[p], misses[p]) IN
    /\ pc[p] = "rc_find"
    /\ target_endpoints' = [target_endpoints EXCEPT ![p] = f.target]
    /\ misses' = [misses EXCEPT ![p] = f.misses]
    /\ IF f.dup
       THEN /\ ret' = [ret EXCEPT ![p] =
                         Err(UnknownError("Route duplicated metric:" \o tables[p][idx[p]]))]
            /\ pc' = [pc EXCEPT ![p] = "done"]
            /\ UNCHANGED <<rpcs, idx>>
       ELSE IF idx[p] = Len(tables[p])
       THEN /\ RcSend(p, f.misses)
            /\ UNCHANGED ret
       ELSE /\ idx' = [idx EXCEPT ![p] = @ + 1]
            /\ UNCHANGED <<pc, rpcs, ret>>
    /\ UNCHANGED <<routerVars, serverVars, op, ncalls, database, tables, evicted0, cache0,
                   resp0, writeLocals, clientVars, queryLocals, inner_client,
                   routeClientVars, pureVars, configVars>>

\* The remote call fails (line 87, `?`).
RcRouteFail(p, e) ==
    /\ pc[p] = "rc_wait"
    /\ pc' = [pc EXCEPT ![p] = "done"]
    /\ ret' = [ret EXCEPT ![p] = Err(e)]
    /\ UNCHANGED <<routerVars, serverVars, op, ncalls, database, routeLocals, idx,
                   writeLocals, clientVars, queryLocals, inner_client, outerVars>>

\* The remote call answers (line 87): route goes on to the first route of
\* the response, or returns when the response has none.
RcRouteReply(p) ==
    /\ pc[p] = "rc_wait"
    /\ \E routes \in RcResponses(rpcs[p][1], route_table) :
         /\ resp0' = [resp0 EXCEPT ![p] = routes]
         /\ IF routes = <<>>
            THEN /\ RcReturn(p, target_endpoints[p])
                 /\ UNCHANGED idx
            ELSE /\ pc' = [pc EXCEPT ![p] = "rc_fill"]
                 /\ idx' = [idx EXCEPT ![p] = 1]
                 /\ UNCHANGED <<ret, refreshed>>
    /\ UNCHANGED <<routerVars, serverVars, op, ncalls, database, tables, target_endpoints,
                   misses, rpcs, evicted0, cache0, writeLocals, clientVars, queryLocals,
                   inner_client, rc_cache, force_refresh, pureVars, configVars>>

\* route takes the next route of the response (lines 90-99): it fills its
\* index and the cache, or ends the call when its metric was not asked for;
\* after the last route the call returns (line 101).
RcFillStep(p) ==
    LET r == RcFillMiss(resp0[p][idx[p]], misses[p], rc_cache, target_endpoints[p]) IN
    /\ pc[p] = "rc_fill"
    /\ rc_cache' = r.cache
    /\ target_endpoints' = [target_endpoints EXCEPT ![p] = r.target]
    /\ IF ~r.ok
       THEN /\ ret' = [ret EXCEPT ![p] =
                         Err(UnknownError("Unknown metric:" \o resp0[p][idx[p]].metric
                                          \o " in response"))]
            /\ pc' = [pc EXCEPT ![p] = "done"]
            /\ UNCHANGED <<idx, refreshed>>
       ELSE IF idx[p] = Len(resp0[p])
       THEN /\ RcReturn(p, r.target)
            /\ UNCHANGED idx
       ELSE /\ idx' = [idx EXCEPT ![p] = @ + 1]
            /\ UNCHANGED <<pc, ret, refreshed>>
    /\ UNCHANGED <<routerVars, serverVars, op, ncalls, database, tables, misses, rpcs,
                   evicted0, cache0, resp0, writeLocals, clientVars, queryLocals,
                   inner_client, force_refresh, pureVars, configVars>>

\* The metrics the callers of RouteClient::route ask for.
RcRouteInputs == {<<"A">>, <<"A", "B">>, <<"B", "C">>, <<"A", "A">>}

\* Calls of RouteClient::route by one caller, one after the other, against a
\* server whose routing table changes (the steps above are those of any
\* caller; the claim looked at is about calls that follow one another).
NextRouteClient ==
    \/ \E p \in SeqProcs, metrics \in RcRouteInputs, force \in BOOLEAN :
         RcRouteCall(p, metrics, force)
    \/ \E p \in SeqProcs : RcGet(p)
    \/ \E p \in SeqProcs, e \in RouteFailures : RcRouteFail(p, e)
    \/ \E p \in SeqProcs : RcRouteReply(p)
    \/ \E p \in SeqProcs : RcFillStep(p)
    \/ \E p \in SeqProcs : Return(p)
    \/ \E t \in Tables, e \in RemoteEndpoints \cup {None} : ChangeRouteBetweenCalls(t, e)

SpecRouteClient == Init /\ [][NextRouteClient]_vars

(* ------------------- functions checked on their own -------------------- *)

\* What the calls of the functions leave alone: the clients and the callers.
callVars == <<routerVars, serverVars, pc, op, ret, ncalls, database, routeLocals, idx,
              writeLocals, clientVars, queryLocals, inner_client, routeClientVars,
              configVars>>

\* Pairs (tables, result) as write hands them to the aggregator: the tables
\* of a partition, none, one or two, with the result of its write.
PairValues ==
    [tables : {<<>>, <<"A">>, <<"B", "C">>},
     result : {Ok(r) : r \in WriteResponses} \cup {Err(RpcError)}]

\* A list of pairs, in a build with or without overflow checks.
InitAggregate ==
    /\ InitClient
    /\ router_endpoint = "D:80"
    /\ overflow_checks \in BOOLEAN
    /\ fin \in SeqsUpTo(PairValues, MaxPairs)
    /\ fout = <<>>

\* RouteBasedWriteError::from is applied to the pairs taken in the order
\* perm.
FromCall(perm) ==
    /\ fout = <<>>
    /\ fout' = <<[perm |-> perm,
                  out |-> From([i \in 1..Len(fin) |-> fin[perm[i]]], overflow_checks)]>>
    /\ UNCHANGED <<callVars, fin>>

NextAggregate == \E perm \in Perms(1..Len(fin)) : FromCall(perm)

SpecAggregate == InitAggregate /\ [][NextAggregate]_vars

\* The status codes of the server (util.rs, StatusCode) and one that is none
\* of them.
StatusCodes == {200, 400, 404, 429, 500, 0}

\* Pieces of status messages: the two patterns, each also split in two, in
\* other case, and filler.
MsgPieces == {"Table", "table", "Tab", "le", "not found", "Not Found", "not", " found", " "}

\* The message made of the pieces, in order.
RECURSIVE Concat(_)
Concat(pieces) == IF pieces = <<>> THEN "" ELSE Head(pieces) \o Concat(Tail(pieces))

\* A status (code, message) as the server may send it.
InitRefresh ==
    /\ InitClient
    /\ router_endpoint = "D:80"
    /\ overflow_checks = TRUE
    /\ fin \in [code : StatusCodes, pieces : SeqsUpTo(MsgPieces, MaxPieces)]
    /\ fout = <<>>

\* should_refresh is applied to the status.
ShouldRefreshCall ==
    /\ fout = <<>>
    /\ fout' = <<should_refresh(fin.code, Concat(fin.pieces))>>
    /\ UNCHANGED <<callVars, fin>>

NextRefresh == ShouldRefreshCall

SpecRefresh == InitRefresh /\ [][NextRefresh]_vars

\* Counts a server may answer: 0, 1, 5, 2^16 - 1, 2^31 and u32::MAX.
CountValues == {<<0, 0>>, <<0, 1>>, <<0, 5>>, <<0, 65535>>, <<32768, 0>>, <<65535, 65535>>}

\* Pairs (tables, result) with counts of the full u32 range.
WidePairValues ==
    { [tables |-> <<"A">>, result |-> Ok([success |-> c, failed |-> <<0, 1>>])] :
        c \in CountValues }
    \cup { [tables |-> <<"B">>, result |-> Ok([success |-> <<0, 5>>, failed |-> c])] :
             c \in {<<32768, 0>>, <<65535, 65535>>} }
    \cup { [tables |-> <<"C">>, result |-> Err(RpcError)] }

\* A list of pairs with counts of the full range, in a build with or without
\* overflow checks.
InitCounts ==
    /\ InitClient
    /\ router_endpoint = "D:80"
    /\ overflow_checks \in BOOLEAN
    /\ fin \in SeqsUpTo(WidePairValues, MaxPairs)
    /\ fout = <<>>

\* RouteBasedWriteError::from is applied to the pairs.
FromWideCall ==
    /\ fout = <<>>
    /\ fout' = <<From(fin, overflow_checks)>>
    /\ UNCHANGED <<callVars, fin>>

NextCounts == FromWideCall

SpecCounts == InitCounts /\ [][NextCounts]_vars

(* ----------------- RouterImpl, several callers at once ----------------- *)

\* Table lists of the concurrent callers of the router.
ConcRouteInputs == {<<"A">>, <<"A", "B">>}

ConcEvictInputs == {<<"A">>, <<"A", "C">>}

\* Router calls of several callers at once.  The answer of the remote and the
\* moment the caller's task goes on with it are two steps, so that answers
\* are taken up in any order.
\* The route that changes on the server is the one of A, the table every
\* call names, so that two answers for it may differ.
NextConc ==
    \/ \E p \in Procs, tbls \in ConcRouteInputs : RouteCall(p, tbls)
    \/ \E p \in Procs : RouteGet(p)
    \/ \E p \in Procs, e \in RouteFailures : RouteFail(p, e)
    \/ \E p \in Procs : RemoteAnswer(p)
    \/ \E p \in Procs : RouteWake(p)
    \/ \E p \in Procs : RouteFill(p)
    \/ \E p \in Procs, ms \in ConcEvictInputs : EvictCall(p, ms)
    \/ \E p \in Procs : EvictStep(p)
    \/ \E p \in Procs : Return(p)
    \/ \E e \in RemoteEndpoints \cup {None} : ChangeRoute("A", e)

SpecConc == Init /\ [][NextConc]_vars

(* --------------- db_client/inner.rs: users of one InnerClient ---------- *)

\* A user invokes sql_query_internal or write_internal of the InnerClient of
\* endpoint ep, with a context that has a database, up to the first await
\* (inner.rs lines 52-59, 76-84).
InnerCall(p, ep) ==
    /\ CanCall(p, MaxInnerCalls)
    /\ ncalls' = ncalls + 1
    /\ op' = [op EXCEPT ![p] = "inner"]
    /\ ret' = [ret EXCEPT ![p] = NoRet]
    /\ endpoint' = [endpoint EXCEPT ![p] = ep]
    /\ client' = [client EXCEPT ![p] = NoClient]
    /\ InnerUse(p, ep, ep)
    /\ UNCHANGED <<routerVars, serverVars, database, routeLocals, idx, writeLocals,
                   clientVars, outerVars>>

\* Users of InnerClients, several at once.
NextInner ==
    \/ \E p \in Procs, ep \in Endpoints : InnerCall(p, ep)
    \/ \E p \in Procs : InnerInitOk(p)
    \/ \E p \in Procs, e \in InitFailures : InnerInitFail(p, e)
    \/ \E p \in Procs : InnerWake(p)
    \/ \E p \in Procs, o \in InitQueryOutcomes : InnerRpcReply(p, o)
    \/ \E p \in Procs : Return(p)

SpecInner == Init /\ [][NextInner]_vars

(* ------------- route_based.rs: init_router and router_endpoint -------- *)

\* The router_endpoint a client may be configured with: well formed ones,
\* whose address is the default endpoint, and ones that do not parse (the
\* cases of test_parse_endpoint, a port that is no number, the limits of the
\* port and of u32).
RouterEndpoints ==
    {"D:80", "D:65535", "D:+80", "D", ":1080", "", "D:99999999", "D:65536", "D:8x", "D:",
     "D:4294967295", "D:4294967296"}

\* What init_router may fail with: factory.build's error, or the error it
\* makes of a router_endpoint that does not parse.
ParseInitFailures ==
    InitFailures \cup {ParseEndpointError(s) : s \in {x \in RouterEndpoints : ~FromStr(x).ok}}

\* A client with any router_endpoint.
InitParse ==
    /\ InitClient
    /\ router_endpoint \in RouterEndpoints
    /\ overflow_checks = TRUE
    /\ fin = <<>>
    /\ fout = <<>>

\* Writes and queries of several callers, from the first use of the client
\* on.
NextInitParse ==
    \/ \E p \in Procs, order \in InitInputs : WriteCall(p, order, TRUE, MaxWrites)
    \/ \E p \in Procs, tbls \in InitInputs : QueryCall(p, tbls, TRUE)
    \/ \E p \in Procs : RouterInitOk(p)
    \/ \E p \in Procs, e \in ParseInitFailures : RouterInitFail(p, e)
    \/ SharedSteps(Procs)
    \/ \E p \in Procs : Return(p)

SpecInitParse == InitParse /\ [][NextInitParse]_vars

(* ---------------------- db_client/raw.rs: RawImpl ---------------------- *)

\* The endpoint a RawImpl is built for (builder.rs).
RawEndpoint == DefaultEndpoint

\* A caller invokes sql_query or write of RawImpl (raw.rs lines 46-56): a
\* context without database (db false) ends the call at once
\* (resolve_database); otherwise sql_query_internal or write_internal of its
\* own InnerClient runs, with the resolved context, up to the first await.
RawCall(p, db) ==
    /\ CanCall(p, MaxInnerCalls)
    /\ ncalls' = ncalls + 1
    /\ op' = [op EXCEPT ![p] = "raw"]
    /\ database' = [database EXCEPT ![p] = db]
    /\ endpoint' = [endpoint EXCEPT ![p] = RawEndpoint]
    /\ client' = [client EXCEPT ![p] = NoClient]
    /\ IF ~db
       THEN /\ ret' = [ret EXCEPT ![p] = Err(NoDatabaseError)]
            /\ pc' = [pc EXCEPT ![p] = "done"]
            /\ qsent' = [qsent EXCEPT ![p] = <<>>]
            /\ UNCHANGED inner_client
       ELSE /\ ret' = [ret EXCEPT ![p] = NoRet]
            /\ InnerUse(p, RawCell, RawEndpoint)
    /\ UNCHANGED <<routerVars, serverVars, routeLocals, idx, writeLocals, clientVars,
                   outerVars>>

\* Writes and queries of several callers, through a RouteBasedImpl and
\* through a RawImpl of the default endpoint, with and without database; a
\* write of C, which the server has no route for, goes to the pooled client
\* of the default endpoint.
NextDatabase ==
    \/ \E p \in Procs, order \in {<<"A">>, <<"C">>}, db \in BOOLEAN : WriteCall(p, order, db, MaxWrites)
    \/ \E p \in Procs, tbls \in InitInputs, db \in BOOLEAN : QueryCall(p, tbls, db)
    \/ \E p \in Procs : RouterInitOk(p)
    \/ \E p \in Procs, e \in InitFailures : RouterInitFail(p, e)
    \/ SharedSteps(Procs)
    \/ \E p \in Procs, db \in BOOLEAN : RawCall(p, db)
    \/ \E p \in Procs, o \in InitQueryOutcomes : InnerRpcReply(p, o)
    \/ \E p \in Procs : Return(p)

SpecDatabase == Init /\ [][NextDatabase]_vars

(* ------------------- writes and queries, one after the other ---------- *)

\* The requests of a caller that writes and queries the same tables; the
\* server has no route for C.
RetryInputs == {<<"A">>, <<"B">>, <<"A", "B">>, <<"C">>, <<"C", "A">>}

\* What a partition's write ends with: written, a stale route, a timeout.
RetryWriteOutcomes ==
    { Ok([success |-> <<0, 5>>, failed |-> <<0, 0>>]),
      Err(ServerError(InvalidArgument, "Table 'B' not found")),
      Err(RpcError) }

\* What the query RPC ends with: rows, a stale route, a timeout.
RetryQueryOutcomes ==
    { Ok("rows"),
      Err(ServerError(InvalidArgument, "Table 'B' not found")),
      Err(RpcError) }

\* Writes and queries of one caller, one call after the other: a write or a
\* query, then a write or a query.
NextRetry ==
    \/ \E p \in SeqProcs, order \in RetryInputs : WriteCall(p, order, TRUE, MaxRetryCalls)
    \/ \E p \in SeqProcs, tbls \in RetryInputs : QueryCall(p, tbls, TRUE)
    \/ \E p \in SeqProcs : RouterInitOk(p)
    \/ RouteSteps(SeqProcs)
    \/ \E p \in SeqProcs : PoolLookup(p)
    \/ \E p \in SeqProcs : PoolEntry(p)
    \/ \E p \in SeqProcs : WritePoll(p)
    \/ \E p \in SeqProcs, i \in 1..Cardinality(Endpoints) : PartInitOk(p, i)
    \/ \E p \in SeqProcs, i \in 1..Cardinality(Endpoints), o \in RetryWriteOutcomes :
         WriteReply(p, i, o)
    \/ \E p \in SeqProcs : InnerEnter(p)
    \/ \E p \in SeqProcs : InnerInitOk(p)
    \/ \E p \in SeqProcs, o \in RetryQueryOutcomes : QueryReply(p, o)
    \/ \E p \in SeqProcs : EvictStep(p)
    \/ \E p \in SeqProcs : Return(p)

SpecRetry == Init /\ [][NextRetry]_vars

(* ------------------------------ claims -------------------------------- *)

Count(s, x) == Cardinality({i \in 1..Len(s) : s[i] = x})

\* The value of a u32 written as its halves.
U32Val(x) == x[1] * Half + x[2]

\* The write of caller p got past partitioning (route succeeded).
Partitioned(p) ==
    /\ op[p] = "write"
    /\ \/ pc[p] \in {"pool_get", "pool_entry", "write_poll", "write_join", "evict_loop"}
       \/ /\ pc[p] = "done"
          /\ \/ ret[p].st = "ok"
             \/ ret[p].st = "err" /\ ret[p].err.kind = "RouteBasedWriteError"

\* The write of caller p has handed every partition to its client.
Dispatched(p) == Partitioned(p) /\ pc[p] \in {"write_join", "evict_loop", "done"}

\* C1: after partitioning, every table of the request is in exactly one
\* partition: the one of the endpoint Route gave for it, or the unroutable one
\* when Route gave none; there is exactly one network-bound partition per
\* resolved endpoint, it carries exactly the entries of its tables, and it is
\* dispatched exactly once (never twice, and once when all are dispatched).
C1_PartitioningComplete ==
    \A p \in Procs : Partitioned(p) =>
        LET tbls == tables[p]
            eps == target_endpoints[p]
            ps == parts[p]
        IN  /\ \A i \in 1..Len(tbls) :
                 LET homes == {k \in 1..Len(ps) : tbls[i] \in Range(ps[k].tables)} IN
                 IF eps[i] = None
                 THEN homes = {} /\ Count(no_ep[p], tbls[i]) = 1
                 ELSE /\ Count(no_ep[p], tbls[i]) = 0
                      /\ Cardinality(homes) = 1
                      /\ \A k \in homes : /\ ps[k].ep = eps[i]
                                          /\ Count(ps[k].tables, tbls[i]) = 1
            /\ Range(no_ep[p]) \subseteq Range(tbls)
            /\ {ps[k].ep : k \in 1..Len(ps)} = Range(eps) \ {None}
            /\ Len(ps) = Cardinality(Range(eps) \ {None})
            /\ \A k \in 1..Len(ps) :
                 /\ Range(ps[k].tables) \subseteq Range(tbls)
                 /\ DOMAIN ps[k].req = Range(ps[k].tables)
                 /\ \A t \in DOMAIN ps[k].req : ps[k].req[t] = PointsOf(p, t)
                 /\ Cardinality({j \in 1..Len(sent[p]) : sent[p][j].ep = ps[k].ep}) <= 1
                 /\ Dispatched(p) =>
                      Cardinality({j \in 1..Len(sent[p]) : sent[p][j].ep = ps[k].ep}) = 1
            /\ Dispatched(p) => Len(sent[p]) = Len(ps)
            /\ \A j \in 1..Len(sent[p]) :
                 \E k \in 1..Len(ps) : sent[p][j] = [ep |-> ps[k].ep, req |-> ps[k].req]

\* C1 witness: a write over three tables, two of them in one partition and
\* one unroutable, all partitions dispatched.
C1_Witness ==
    \E p \in Procs :
        /\ Dispatched(p)
        /\ Len(tables[p]) = 3
        /\ \E k \in 1..Len(parts[p]) : Len(parts[p][k].tables) = 2
        /\ Len(no_ep[p]) = 1
        /\ Len(sent[p]) = 1

\* The write of caller p has returned a merged result.
Merged(p) == Partitioned(p) /\ pc[p] = "done"

OkParts(p) == {k \in 1..Len(parts[p]) : parts[p][k].result.st = "ok"}

FailedParts(p) == {k \in 1..Len(parts[p]) : parts[p][k].result.st = "err"}

RECURSIVE SumSuccess(_, _)
SumSuccess(p, S) ==
    IF S = {} THEN 0
    ELSE LET k == CHOOSE x \in S : TRUE
         IN  U32Val(parts[p][k].result.val.success) + SumSuccess(p, S \ {k})

RECURSIVE SumFailed(_, _)
SumFailed(p, S) ==
    IF S = {} THEN 0
    ELSE LET k == CHOOSE x \in S : TRUE
         IN  U32Val(parts[p][k].result.val.failed) + SumFailed(p, S \ {k})

\* The failed entry the unroutable tables of caller p are reported with.
IsUnroutableEntry(p, e) ==
    /\ e.tables = no_ep[p]
    /\ e.err.kind = "Unknown"
    /\ Contains(e.err.msg, "don't have corresponding endpoints")

\* C2: the aggregated write result represents every partition exactly once:
\* ok.tables is the union of the tables of the successful partitions,
\* ok.success and ok.failed are the sums of their counts, errors holds exactly
\* one (tables, error) pair per failed partition (the unroutable one
\* included), and all_ok() is true iff errors is empty.
C2_AggregatedResult ==
    \A p \in Procs : Merged(p) =>
        LET agg == route_based_error[p]
            errs == agg.errors
        IN  /\ Range(agg.ok.tables) = UNION {Range(parts[p][k].tables) : k \in OkParts(p)}
            /\ \A t \in Range(agg.ok.tables) : Count(agg.ok.tables, t) = 1
            /\ U32Val(agg.ok.success) = SumSuccess(p, OkParts(p))
            /\ U32Val(agg.ok.failed) = SumFailed(p, OkParts(p))
            /\ Len(errs) = Cardinality(FailedParts(p)) + (IF no_ep[p] # <<>> THEN 1 ELSE 0)
            /\ \A k \in FailedParts(p) :
                 Cardinality({j \in 1..Len(errs) :
                                errs[j] = [tables |-> parts[p][k].tables,
                                           err |-> parts[p][k].result.err]}) = 1
            /\ no_ep[p] # <<>> =>
                 Cardinality({j \in 1..Len(errs) : IsUnroutableEntry(p, errs[j])}) = 1
            /\ all_ok(agg) <=> (errs = <<>>)
            /\ all_ok(agg) <=> (FailedParts(p) = {} /\ no_ep[p] = <<>>)

\* C2 witness: A and B written to one endpoint with success=5, failed=0, and
\* C unroutable: ok = ({A,B}, 5, 0), errors = [({C}, no endpoint)], not all ok.
C2_Witness ==
    \E p \in Procs :
        /\ Merged(p)
        /\ Range(route_based_error[p].ok.tables) = {"A", "B"}
        /\ U32Val(route_based_error[p].ok.success) = 5
        /\ U32Val(route_based_error[p].ok.failed) = 0
        /\ Len(route_based_error[p].errors) = 1
        /\ route_based_error[p].errors[1].tables = <<"C">>
        /\ IsUnroutableEntry(p, route_based_error[p].errors[1])
        /\ ~all_ok(route_based_error[p])

\* C3: write returns only after every dispatched partition has completed; a
\* failed partition neither cancels a sibling nor keeps it from being
\* dispatched, and every partition's outcome is in the result whatever the
\* order of completion.
C3_JoinAll ==
    \A p \in Procs : Partitioned(p) =>
        /\ Dispatched(p) => Len(sent[p]) = Len(parts[p])
        /\ \A k \in 1..Len(parts[p]) : Count(completed[p], k) <= 1
        /\ \A k \in 1..Len(parts[p]) :
             (parts[p][k].result.st = "pending") <=> (k \notin Range(completed[p]))
        /\ pc[p] \in {"pool_get", "pool_entry", "write_poll"} => completed[p] = <<>>
        /\ pc[p] = "write_join" =>
             /\ ret[p].st = "none"
             /\ \E k \in 1..Len(parts[p]) : parts[p][k].result.st = "pending"
        /\ pc[p] \in {"evict_loop", "done"} =>
             Range(completed[p]) = 1..Len(parts[p])
        /\ pc[p] = "done" =>
             /\ \A k \in OkParts(p) :
                  Range(parts[p][k].tables) \subseteq Range(route_based_error[p].ok.tables)
             /\ \A k \in FailedParts(p) :
                  \E j \in 1..Len(route_based_error[p].errors) :
                      route_based_error[p].errors[j] =
                          [tables |-> parts[p][k].tables, err |-> parts[p][k].result.err]

\* C3 witness: the second partition failed first (a timeout), the first one
\* completed after it with success, and both are in the result.
C3_Witness ==
    \E p \in Procs :
        /\ Merged(p)
        /\ completed[p] = <<2, 1>>
        /\ parts[p][2].result.st = "err"
        /\ parts[p][2].result.err.kind = "Rpc"
        /\ parts[p][1].result.st = "ok"
        /\ route_based_error[p].ok.tables = parts[p][1].tables

\* A result that is a server error classified routing-stale: code 400 and a
\* message that contains "Table" and "not found".
StaleFailure(r) ==
    /\ r.st = "err"
    /\ r.err.kind = "Server"
    /\ r.err.code = 400
    /\ Contains(r.err.msg, "Table")
    /\ Contains(r.err.msg, "not found")

\* The tables of the partitions that failed routing-stale.
StaleTables(ps) ==
    UNION {Range(ps[k].tables) : k \in {j \in 1..Len(ps) : StaleFailure(ps[j].result)}}

\* C4: when write returns, the tables of every partition that failed with a
\* routing-stale server error were handed to evict, and (no other caller
\* routing meanwhile) none of them is in the route cache.
C4_StaleEvicted ==
    \A p \in Procs : Merged(p) =>
        \A t \in StaleTables(parts[p]) :
            /\ t \in Range(evicts[p])
            /\ cache[t] = None

\* C4 witness: a write returned, one of its partitions, of two tables, failed
\* routing-stale, and its tables, cached until then, are gone from the
\* cache.
C4_Witness ==
    \E p \in Procs :
        /\ Merged(p)
        /\ Cardinality(StaleTables(parts[p])) = 2
        /\ \A t \in StaleTables(parts[p]) :
             /\ evicted[t] \in Endpoints
             /\ cache[t] = None
             /\ t \in Range(evicts[p])

\* C5: write removes a table from the route cache only if the table belongs
\* to a partition that failed with a routing-stale server error; success and
\* every other failure (transport, authentication, other server errors, the
\* local unroutable error) evict nothing and leave the cache as it is.
C5_OnlyStaleEvicted ==
    [][ /\ \A t \in Tables :
             (cache[t] # None /\ cache'[t] = None) =>
                 \E p \in Procs : /\ op[p] = "write"
                                  /\ pc[p] = "evict_loop"
                                  /\ t = evicts[p][idx[p]]
                                  /\ t \in StaleTables(parts[p])
        /\ \A p \in Procs :
             (op'[p] = "write" /\ pc'[p] \in {"evict_loop", "done"}) =>
                 Range(evicts'[p]) \subseteq StaleTables(parts'[p]) ]_vars

\* C5 witness: a write returned with a partition that failed with code 500
\* "internal error"; nothing was evicted and its table is still cached.
C5_Witness ==
    \E p \in Procs :
        /\ Merged(p)
        /\ evicts[p] = <<>>
        /\ \E k \in FailedParts(p) :
             /\ parts[p][k].result.err = ServerError(500, "internal error")
             /\ \E t \in Range(parts[p][k].tables) : cache[t] # None

\* C6: a route call whose tables are all in the route cache issues no remote
\* resolve call.
C6_CacheHitNoRemoteCall ==
    \A p \in Procs :
        ( /\ op[p] = "route"
          /\ pc[p] \in {"route_wait", "route_fill", "done"}
          /\ tables[p] # <<>>
          /\ \A i \in 1..Len(tables[p]) : cache0[p][tables[p][i]] # None )
        => rpcs[p] = <<>>

\* The route of caller p is past its lookups: its request was sent.
Requested(p) == op[p] = "route" /\ pc[p] \in {"route_wait", "route_fill", "done"}

\* C7: the route([t]) that follows evict([t]) issues exactly one remote
\* resolve call, the call includes t, and the route returns the endpoint the
\* remote reports for t, also when t was cached with another endpoint before.
C7_EvictForcesRefresh ==
    \A p \in Procs : \A t \in Tables :
        ( /\ Requested(p)
          /\ tables[p] = <<t>>
          /\ evicted0[p][t] # None )
        => /\ Len(rpcs[p]) = 1
           /\ t \in rpcs[p][1]
           /\ (pc[p] = "done" /\ ret[p].ok) =>
                \A j \in 1..Len(resp0[p]) :
                    (resp0[p][j].table = t /\ resp0[p][j].endpoint # None)
                        => ret[p].val = <<resp0[p][j].endpoint>>

\* C7 witness: t was cached with one endpoint, evicted, and the following
\* route([t]) returned the other endpoint, the one in the remote's response.
C7_Witness ==
    \E p \in Procs : \E t \in Tables :
        /\ op[p] = "route"
        /\ pc[p] = "done"
        /\ tables[p] = <<t>>
        /\ evicted0[p][t] \in Endpoints
        /\ ret[p].ok
        /\ ret[p].val[1] # evicted0[p][t]
        /\ rpcs[p] = <<{t}>>
        /\ \E j \in 1..Len(resp0[p]) :
             resp0[p][j] = [table |-> t, endpoint |-> ret[p].val[1]]

\* The endpoints the response of caller p's route call carries for table t.
Reported(p, t) ==
    {resp0[p][j].endpoint : j \in {k \in 1..Len(resp0[p]) : resp0[p][k].table = t}} \ {None}

\* C8: route returns one result per input table, in input order, and the
\* result of a table that is in the route cache is the cached endpoint, also
\* when the remote now maps the table to another endpoint.
C8_RouteResults ==
    \A p \in Procs : op[p] = "route" =>
        /\ pc[p] \in {"route_find", "route_wait", "route_fill", "done"} =>
             Len(target_endpoints[p]) = Len(tables[p])
        /\ (pc[p] = "done" /\ ret[p].ok) =>
             /\ Len(ret[p].val) = Len(tables[p])
             /\ \A i \in 1..Len(tables[p]) :
                  LET t == tables[p][i] IN
                  IF cache0[p][t] # None
                  THEN ret[p].val[i] = cache0[p][t]
                  ELSE ret[p].val[i] \in Reported(p, t) \cup {DefaultEndpoint}

\* C8 witness: a route over two tables returned the cached endpoint of a
\* table the remote meanwhile maps to another endpoint.
C8_Witness ==
    \E p \in Procs :
        /\ op[p] = "route"
        /\ pc[p] = "done"
        /\ ret[p].ok
        /\ Len(tables[p]) = 2
        /\ \E i \in 1..2 :
             /\ cache0[p][tables[p][i]] # None
             /\ route_table[tables[p][i]] \notin {None, cache0[p][tables[p][i]]}
             /\ ret[p].val[i] = cache0[p][tables[p][i]]

\* The remote call of caller p's route was answered (it did not fail).
RemoteAnswered(p) ==
    /\ op[p] = "route"
    /\ pc[p] = "done"
    /\ ~(ret[p].st = "err" /\ ret[p].err \in RouteFailures)

\* C9: for a table that is not cached and for which the response carries no
\* endpoint (no entry, or an entry without endpoint), route returns the
\* default endpoint; the missing endpoint does not make route fail.
C9_DefaultFallback ==
    \A p \in Procs : RemoteAnswered(p) =>
        LET unknown == \E j \in 1..Len(resp0[p]) :
                          /\ resp0[p][j].endpoint # None
                          /\ resp0[p][j].table \notin rpcs[p][1]
        IN  /\ ~unknown => ret[p].ok
            /\ ret[p].ok =>
                 \A i \in 1..Len(tables[p]) :
                     (cache0[p][tables[p][i]] = None /\ Reported(p, tables[p][i]) = {})
                         => ret[p].val[i] = DefaultEndpoint

\* C9 witness: a route over two uncached tables; the response names an
\* endpoint for one and carries an entry without endpoint for the other,
\* which got the default endpoint.
C9_Witness ==
    \E p \in Procs :
        /\ RemoteAnswered(p)
        /\ ret[p].ok
        /\ Len(tables[p]) = 2
        /\ \E i, k \in 1..2 :
             /\ cache0[p][tables[p][i]] = None
             /\ \E j \in 1..Len(resp0[p]) :
                  resp0[p][j] = [table |-> tables[p][i], endpoint |-> None]
             /\ ret[p].val[i] = DefaultEndpoint
             /\ Reported(p, tables[p][k]) # {}
             /\ ret[p].val[k] \in Reported(p, tables[p][k])

\* C10: when the remote resolve call of a route fails, route returns the
\* error for the whole batch, without per-table results, and the route cache
\* is as it was before the call.
C10_RemoteFailure ==
    \A p \in Procs :
        (op[p] = "route" /\ pc[p] = "done" /\ ret[p].st = "err"
            /\ ret[p].err \in RouteFailures)
        => /\ cache = cache0[p]
           /\ ~ret[p].ok
           /\ ret[p].val = None

\* C10 witness: a route over a cached and an uncached table whose remote call
\* failed.
C10_Witness ==
    \E p \in Procs :
        /\ op[p] = "route"
        /\ pc[p] = "done"
        /\ ret[p].st = "err"
        /\ ret[p].err = RpcError
        /\ Len(tables[p]) = 2
        /\ rpcs[p][1] # {}
        /\ \E i \in 1..2 : cache0[p][tables[p][i]] # None
        /\ cache = cache0[p]

\* Caller p takes a step of an evict call: the call with its first remove, or
\* a later remove.
EvictStepOf(p) ==
    /\ op'[p] = "evict"
    /\ \/ pc[p] = "idle"
       \/ pc[p] = "evict_loop" /\ (idx'[p] # idx[p] \/ pc'[p] # pc[p])

\* C11: evict(tables) goes through the listed tables in order; each of its
\* steps removes the table it is at (nothing changes if the table is not
\* cached) and leaves the entry of every other table as it is; after the last
\* one it returns, without error; this also while route calls of other
\* callers are in flight, whose position it does not change.
C11_EvictFrame ==
    [][ \A p \in Procs : EvictStepOf(p) =>
          LET k == IF pc[p] = "idle" THEN 1 ELSE idx[p]
              ms == tables'[p]
          IN  /\ ms = <<>> => cache' = cache /\ pc'[p] = "done"
              /\ ms # <<>> =>
                   /\ \A t \in Tables : cache'[t] = IF t = ms[k] THEN None ELSE cache[t]
                   /\ pc'[p] = IF k = Len(ms) THEN "done" ELSE "evict_loop"
                   /\ k < Len(ms) => idx'[p] = k + 1
              /\ ret'[p].st # "err"
              /\ \A q \in Procs \ {p} : pc'[q] = pc[q] /\ ret'[q] = ret[q] ]_vars

\* C11 witness: an evict of two tables returned while a route of another
\* caller was in flight; it listed a cached table, now gone, and a table that
\* was not cached, and a cached table it did not list is still cached.
C11_Witness ==
    \E p \in Procs : \E q \in Procs \ {p} :
        /\ op[p] = "evict"
        /\ pc[p] = "done"
        /\ Len(tables[p]) = 2
        /\ pc[q] \in {"route_find", "route_wait", "route_answered", "route_fill"}
        /\ \E t \in Range(tables[p]) : cache0[p][t] # None /\ cache[t] = None
        /\ \E t \in Range(tables[p]) : cache0[p][t] = None /\ cache[t] = None
        /\ \E u \in Tables \ Range(tables[p]) : cache[u] # None /\ cache[u] = cache0[p][u]

\* Every caller ran route([t]) and has returned, and each began before t was
\* ever inserted or evicted: no call had completed with an endpoint for t
\* when the last one began.
AllRaced(t) ==
    \A p \in Procs :
        /\ op[p] = "route"
        /\ pc[p] = "done"
        /\ tables[p] = <<t>>
        /\ cache0[p][t] = None
        /\ evicted0[p][t] = None

RECURSIVE SumRpcs(_)
SumRpcs(S) ==
    IF S = {} THEN 0
    ELSE LET p == CHOOSE x \in S : TRUE IN Len(rpcs[p]) + SumRpcs(S \ {p})

\* C12: when every caller routes the same uncached table at once, at most one
\* remote call per caller is issued in total, every call that succeeds
\* returns an endpoint, and the cache holds for the table at most one value,
\* an endpoint one of the calls was told, and holds one as soon as a
\* successful call was told one.
C12_ConcurrentResolution ==
    \A t \in Tables : AllRaced(t) =>
        /\ SumRpcs(Procs) <= Cardinality(Procs)
        /\ \A p \in Procs : ret[p].ok =>
             /\ Len(ret[p].val) = 1
             /\ ret[p].val[1] \in Endpoints
             /\ ret[p].val[1] \in Reported(p, t) \cup {DefaultEndpoint}
        /\ cache[t] # None => cache[t] \in UNION {Reported(p, t) : p \in Procs}
        /\ (\E p \in Procs : ret[p].ok /\ Reported(p, t) # {}) => cache[t] \in Endpoints

\* C12 witness: two callers routed the same uncached table at once, both
\* were told the same endpoint, both returned it and the cache holds it.
C12_Witness ==
    \E t \in Tables :
        /\ AllRaced(t)
        /\ \A p \in Procs : ret[p].ok /\ Reported(p, t) = {cache[t]} /\ ret[p].val = <<cache[t]>>
        /\ cache[t] \in Endpoints

\* The cache after the whole response `routes` was taken up (router.rs
\* lines 78-92), entry by entry, up to an entry that ends the call.
RECURSIVE FillAll(_, _, _, _)
FillAll(routes, m, c, target) ==
    IF routes = <<>> THEN c
    ELSE LET r == FillMisses(Head(routes), m, c, target) IN
         IF r.ok THEN FillAll(Tail(routes), m, r.cache, r.target) ELSE r.cache

\* The cache entry of table t after the answers of callers p and q were
\* inserted in this order.
InsertedInOrder(p, q, t) ==
    FillAll(resp0[q], misses[q],
            FillAll(resp0[p], misses[p], cache0[p], target_endpoints[p]),
            target_endpoints[q])[t]

\* C13: when two route calls at once both miss a table and both get an answer
\* with an endpoint for it (and with entries of requested tables only), the
\* cache entry of the table is the same whichever answer is inserted last.
C13_InsertOrderIndependent ==
    \A t \in Tables : \A p \in Procs : \A q \in Procs \ {p} :
        ( /\ op[p] = "route" /\ op[q] = "route"
          /\ pc[p] \in {"route_answered", "done"}
          /\ pc[q] \in {"route_answered", "done"}
          /\ t \in DOMAIN misses[p] /\ t \in DOMAIN misses[q]
          /\ Reported(p, t) # {} /\ Reported(q, t) # {}
          /\ \A j \in 1..Len(resp0[p]) : resp0[p][j].table \in DOMAIN misses[p]
          /\ \A j \in 1..Len(resp0[q]) : resp0[q][j].table \in DOMAIN misses[q] )
        => InsertedInOrder(p, q, t) = InsertedInOrder(q, p, t)

\* C14: when several queries and writes race on the first use of the client,
\* the router with its bootstrap client is created at most once: at most one
\* caller initialises at a time and it holds the cell's permit, the cell is
\* set exactly when one initialisation has succeeded, and every caller that
\* is past the initialisation works on that one router.
C14_RouterInitOnce ==
    /\ routers_built <= 1
    /\ (router # None) <=> (routers_built = 1)
    /\ Cardinality({p \in Procs : pc[p] = "router_init"}) <= 1
    /\ \A p \in Procs :
         /\ pc[p] = "router_init" => init_permit = p /\ router = None
         /\ pc[p] \notin {"idle", "done", "router_init", "router_wait"} =>
              router = "RouterImpl"

\* One caller has initialised the router and asked it for routes while the
\* other, which waited for the initialisation, has yet to go on.
C14_Witness ==
    \E p, q \in Procs :
      /\ p # q
      /\ pc[p] = "route_wait"
      /\ pc[q] = "router_wait"
      /\ routers_built = 1
      /\ router = "RouterImpl"

\* C15: however get_or_create calls race, every call returns the handle the
\* pool holds for its endpoint, a handle built by a caller that lost the race
\* is returned to nobody, and a pooled handle is never replaced or removed,
\* so that all calls for one endpoint return the same handle.
C15_PoolOneHandle ==
    /\ [](\A p \in Procs :
            op[p] = "get_or_create" /\ pc[p] = "done" =>
                /\ client[p] # NoClient
                /\ client[p].ep = endpoint[p]
                /\ client[p] = pool[endpoint[p]])
    /\ [][\A e \in Endpoints : pool[e] # NoClient => pool'[e] = pool[e]]_vars

\* Both callers missed the lookup for one endpoint, both built a handle, and
\* both returned the one that was pooled first.
C15_Witness ==
    \E e \in Endpoints :
      /\ built[e] = 2
      /\ \A p \in Procs :
           /\ op[p] = "get_or_create"
           /\ pc[p] = "done"
           /\ endpoint[p] = e
           /\ client[p] = NewInnerClient(e, 1)

\* C16: a query whose table list is empty fails locally with the error
\* "tables in query request can't be empty in route based mode": the router
\* is neither created nor asked, the pool is not used, nothing is sent, and
\* the cache is as it was when the call began.
C16_EmptyTablesFailLocally ==
    /\ [](\A p \in SeqProcs :
            op[p] = "query" /\ pc[p] # "idle" /\ tables[p] = <<>> =>
                /\ pc[p] = "done"
                /\ ret[p] = Err(UnknownError("tables in query request can't be empty in route based mode"))
                /\ rpcs[p] = <<>>
                /\ qsent[p] = <<>>
                /\ client[p] = NoClient
                /\ cache = cache0[p])
    /\ [][\A p \in SeqProcs :
            pc[p] = "idle" /\ op'[p] = "query" /\ pc'[p] # "idle" /\ tables'[p] = <<>> =>
                UNCHANGED <<cache, evicted, router, init_permit, routers_built, pool, built>>]_vars

\* A query with no tables has failed at once on a client whose router holds
\* routes: the routes are all still there.
C16_Witness ==
    \E p \in SeqProcs :
      /\ op[p] = "query"
      /\ pc[p] = "done"
      /\ tables[p] = <<>>
      /\ ret[p].st = "err"
      /\ router = "RouterImpl"
      /\ cache # EmptyCache
      /\ cache = cache0[p]

\* C17: a query is sent to exactly one endpoint, the one route returned for
\* the first table of the request; the endpoints of the other tables get
\* nothing.
C17_QueryToFirstTable ==
    \A p \in SeqProcs :
      op[p] = "query" =>
          /\ Len(qsent[p]) <= 1
          /\ pc[p] \in {"pool_get", "pool_entry"} =>
                endpoint[p] = target_endpoints[p][1]
          /\ pc[p] \in {"inner_enter", "inner_init", "inner_wait", "rpc_wait"} =>
                /\ client[p] # NoClient
                /\ client[p].ep = target_endpoints[p][1]
                /\ client[p] = pool[target_endpoints[p][1]]
          /\ qsent[p] # <<>> => qsent[p] = <<target_endpoints[p][1]>>
          /\ pc[p] = "done" /\ ret[p].st = "ok" => qsent[p] # <<>>

\* A query of two tables that route gave two endpoints has gone to the first
\* table's endpoint, which is not the default one.
C17_Witness ==
    \E p \in SeqProcs :
      /\ op[p] = "query"
      /\ pc[p] = "done"
      /\ ret[p].st = "ok"
      /\ Len(tables[p]) = 2
      /\ target_endpoints[p][2] # None
      /\ target_endpoints[p][2] # target_endpoints[p][1]
      /\ target_endpoints[p][1] # DefaultEndpoint
      /\ qsent[p] = <<target_endpoints[p][1]>>

\* C18: when the RPC step of a query fails, whatever the failure, evict is
\* called with all tables of the request before the call returns, so none of
\* them is cached when the caller has the error, and the error is the one the
\* step failed with.
C18_QueryFailureEvictsAll ==
    \A p \in SeqProcs :
      op[p] = "query" /\ pc[p] = "done" /\ client[p] # NoClient /\ ret[p].st = "err" =>
          /\ evicts[p] = tables[p]
          /\ \A i \in 1..Len(tables[p]) : cache[tables[p][i]] = None
          /\ ret[p].err \in QueryFailures

\* A query of two tables, both cached when the call began, has failed with a
\* server error that says nothing about routes: both tables are gone from the
\* cache.
C18_Witness ==
    \E p \in SeqProcs :
      /\ op[p] = "query"
      /\ pc[p] = "done"
      /\ client[p] # NoClient
      /\ ret[p] = Err(ServerError(InternalError, "internal error"))
      /\ Len(tables[p]) = 2
      /\ tables[p][1] # tables[p][2]
      /\ \A i \in 1..2 : cache0[p][tables[p][i]] # None /\ cache[tables[p][i]] = None

\* C19 (query): a connect or transport failure of the query leaves the cache
\* as route left it: no table of the request is evicted.
C19_ConnectFailureKeepsCache ==
    \A p \in SeqProcs :
      /\ op[p] = "query"
      /\ pc[p] = "done"
      /\ ret[p].st = "err"
      /\ ret[p].err \in {ConnectError, RpcError}
      /\ client[p] # NoClient
      => /\ evicts[p] = <<>>
         /\ cache[tables[p][1]] # None

\* C20: a write whose router initialisation or whose route fails returns
\* that error and dispatches no partition: nothing is sent while the client
\* has no router, and a write that ended with the error of the initialisation
\* or of route has sent nothing and has no partition.
C20_WriteFailFast ==
    \A p \in SeqProcs :
      op[p] = "write" =>
          /\ router = None => sent[p] = <<>> /\ parts[p] = <<>>
          /\ pc[p] \in {"router_init", "router_wait", "route_find", "route_wait",
                        "route_answered", "route_fill"} =>
                sent[p] = <<>> /\ parts[p] = <<>>
          /\ /\ pc[p] = "done"
             /\ ret[p].st = "err"
             /\ ret[p].err.kind \notin {"RouteBasedWriteError", "NoDatabase"}
             =>
                /\ sent[p] = <<>>
                /\ parts[p] = <<>>
                /\ completed[p] = <<>>
                /\ \/ /\ ret[p].err \in InitFailures
                      /\ router = None
                      /\ rpcs[p] = <<>>
                   \/ /\ ret[p].err \in RouteFailures \cup
                                        {UnknownError("Unknown table:" \o t \o " in response") :
                                           t \in Tables}
                      /\ router = "RouterImpl"
                      /\ rpcs[p] # <<>>

\* A write of two tables has ended with the transport error its route call
\* failed with, and nothing was sent to any endpoint.
C20_Witness ==
    \E p \in SeqProcs :
      /\ op[p] = "write"
      /\ pc[p] = "done"
      /\ ret[p] = Err(RpcError)
      /\ Len(tables[p]) = 2
      /\ rpcs[p] # <<>>
      /\ sent[p] = <<>>
      /\ \A e \in Endpoints : pool[e] = NoClient

\* The tables of the write of caller p that route gave no endpoint for.
Unroutable(p) ==
    {tables[p][i] : i \in {j \in 1..Len(tables[p]) : target_endpoints[p][j] = None}}

\* C21: the tables route gave no endpoint for are in no write request that is
\* sent; when there are such tables, the aggregated result of the write has
\* exactly one failed entry that names them, all of them and nothing else,
\* each once, with the local error "tables don't have corresponding
\* endpoints", none of them counts as written, and the write returns an
\* error.
C21_UnroutableNeverSent ==
    \A p \in SeqProcs : Partitioned(p) =>
        LET un == Unroutable(p)
            errs == route_based_error[p].errors
            local == {j \in 1..Len(errs) : Range(errs[j].tables) \cap un # {}}
        IN  /\ \A j \in 1..Len(sent[p]) : DOMAIN sent[p][j].req \cap un = {}
            /\ pc[p] = "done" =>
                  /\ Range(route_based_error[p].ok.tables) \cap un = {}
                  /\ un = {} =>
                        \A j \in 1..Len(errs) :
                          errs[j].err # UnknownError("tables don't have corresponding endpoints")
                  /\ un # {} =>
                        /\ Cardinality(local) = 1
                        /\ \A j \in local :
                             /\ Range(errs[j].tables) = un
                             /\ Len(errs[j].tables) = Cardinality(un)
                             /\ errs[j].err = UnknownError("tables don't have corresponding endpoints")
                        /\ ret[p].st = "err"
                        /\ ret[p].err.kind = "RouteBasedWriteError"
                        /\ ret[p].err.msg = route_based_error[p]

\* A write of three tables, two of them without endpoint, has ended: the
\* third was written, the two are reported in one failed entry.
C21_Witness ==
    \E p \in SeqProcs :
      /\ Partitioned(p)
      /\ pc[p] = "done"
      /\ Len(tables[p]) = 3
      /\ Cardinality(Unroutable(p)) = 2
      /\ Len(sent[p]) = 1
      /\ parts[p][1].result.st = "ok"
      /\ Len(route_based_error[p].errors) = 1
      /\ Len(route_based_error[p].errors[1].tables) = 2

\* C22: write returns the merged success, the sums of the counts of its
\* partitions, exactly when no partition failed, the unroutable one included;
\* otherwise it returns the multi-error, which carries the tables and the
\* summed counts of the successful partitions and, for every failed
\* partition, its tables and its error.
C22_WriteReturn ==
    \A p \in SeqProcs : Merged(p) =>
        /\ ret[p].st \in {"ok", "err"}
        /\ ret[p].st = "ok" <=> (FailedParts(p) = {} /\ no_ep[p] = <<>>)
        /\ ret[p].st = "ok" =>
              /\ U32Val(ret[p].val.success) = SumSuccess(p, OkParts(p))
              /\ U32Val(ret[p].val.failed) = SumFailed(p, OkParts(p))
        /\ ret[p].st = "err" =>
              /\ ret[p].err.kind = "RouteBasedWriteError"
              /\ LET e == ret[p].err.msg IN
                 /\ U32Val(e.ok.success) = SumSuccess(p, OkParts(p))
                 /\ U32Val(e.ok.failed) = SumFailed(p, OkParts(p))
                 /\ Range(e.ok.tables) = UNION {Range(parts[p][k].tables) : k \in OkParts(p)}
                 /\ e.errors # <<>>
                 /\ \A k \in FailedParts(p) :
                      \E j \in 1..Len(e.errors) :
                        e.errors[j] = [tables |-> parts[p][k].tables,
                                       err |-> parts[p][k].result.err]

\* A write to two endpoints has ended, one partition written with counts
\* (1, 2) and the other failed: the multi-error carries both.
C22_Witness ==
    \E p \in SeqProcs :
      /\ Merged(p)
      /\ Len(parts[p]) = 2
      /\ Cardinality(OkParts(p)) = 1
      /\ Cardinality(FailedParts(p)) = 1
      /\ no_ep[p] = <<>>
      /\ ret[p].st = "err"
      /\ U32Val(ret[p].err.msg.ok.success) = 1
      /\ U32Val(ret[p].err.msg.ok.failed) = 2
      /\ Len(ret[p].err.msg.errors) = 1

\* The pieces put together have "Table" in them: as one piece, or as "Tab"
\* followed by "le".
HasTable(pieces) ==
    \E i \in 1..Len(pieces) :
      \/ pieces[i] = "Table"
      \/ i < Len(pieces) /\ pieces[i] = "Tab" /\ pieces[i + 1] = "le"

\* The pieces put together have "not found" in them.
HasNotFound(pieces) ==
    \E i \in 1..Len(pieces) :
      \/ pieces[i] = "not found"
      \/ i < Len(pieces) /\ pieces[i] = "not" /\ pieces[i + 1] = " found"

\* C23: should_refresh(code, message) is true exactly when the code is 400
\* and the message has "Table" and "not found" in it, in this case; it is
\* false for every other status.
C23_ShouldRefresh ==
    fout # <<>> =>
        (fout[1] <=> (fin.code = 400 /\ HasTable(fin.pieces) /\ HasNotFound(fin.pieces)))

\* A status 400 whose message is "Table" followed by "not found" has been
\* classified as stale.
C23_Witness ==
    /\ fout = <<TRUE>>
    /\ fin.code = 400
    /\ fin.pieces = <<"Table", "not found">>

\* C24: when the router has no endpoint for the first table of a query, the
\* query fails with the local error "table doesn't have corresponding
\* endpoint": no client is taken from the pool, whose content stays as it
\* was, and no query is sent.
C24_FirstTableUnresolved ==
    /\ [](\A p \in SeqProcs :
            /\ op[p] = "query"
            /\ pc[p] # "idle"
            /\ target_endpoints[p] # <<>>
            /\ target_endpoints[p][1] = None
            => /\ pc[p] = "done"
               /\ ret[p] = Err(UnknownError("table doesn't have corresponding endpoint"))
               /\ client[p] = NoClient
               /\ qsent[p] = <<>>)
    /\ [][\A p \in SeqProcs :
            /\ pc[p] = "idle"
            /\ op'[p] = "query"
            /\ target_endpoints'[p] # <<>>
            /\ target_endpoints'[p][1] = None
            => UNCHANGED <<pool, built, cache>>]_vars

\* A query of two tables, the first without endpoint and the second with
\* one, has failed, and the pool has no client.
C24_Witness ==
    \E p \in SeqProcs :
      /\ op[p] = "query"
      /\ pc[p] = "done"
      /\ Len(tables[p]) = 2
      /\ target_endpoints[p][1] = None
      /\ target_endpoints[p][2] # None
      /\ ret[p].st = "err"
      /\ \A e \in Endpoints : pool[e] = NoClient

\* C25: a query or a write whose context has no database, on a client
\* without default database, fails with the local error NoDatabase before the
\* router is initialised or asked and before any query or write is sent: the
\* router cell, the pool and the cache stay as they were.
C25_NoDatabaseFailsLocally ==
    /\ [](\A p \in Procs :
            /\ op[p] = "write" \/ (op[p] = "query" /\ tables[p] # <<>>)
            /\ pc[p] # "idle"
            /\ ~database[p]
            => /\ pc[p] = "done"
               /\ ret[p] = Err(NoDatabaseError)
               /\ rpcs[p] = <<>>
               /\ sent[p] = <<>>
               /\ qsent[p] = <<>>
               /\ client[p] = NoClient)
    /\ [][\A p \in Procs :
            /\ pc[p] = "idle"
            /\ op'[p] = "write" \/ (op'[p] = "query" /\ tables'[p] # <<>>)
            /\ ~database'[p]
            => UNCHANGED <<cache, router, init_permit, routers_built, pool, built>>]_vars

\* A write and a query without database have both failed on a client that
\* still has no router.
C25_Witness ==
    \E p, q \in Procs :
      /\ op[p] = "write"
      /\ op[q] = "query"
      /\ pc[p] = "done"
      /\ pc[q] = "done"
      /\ ~database[p]
      /\ ~database[q]
      /\ ret[p] = Err(NoDatabaseError)
      /\ ret[q] = Err(NoDatabaseError)
      /\ router = None
      /\ init_permit = None

\* C26: a route of RouteClientImpl with force_refresh gets the endpoints of
\* the metrics from the server and puts them into the cache, so that a later
\* route without force_refresh returns, for every metric a forced route got
\* an endpoint for, the endpoint the last forced route returned for it.
C26_ForceRefreshUpdatesCache ==
    \A p \in SeqProcs :
      op[p] = "rc_route" /\ pc[p] = "done" /\ ret[p].st = "ok" =>
          /\ force_refresh[p] =>
                \A i \in 1..Len(tables[p]) :
                  target_endpoints[p][i].endpoint # None =>
                      rc_cache[tables[p][i]] = target_endpoints[p][i]
          /\ ~force_refresh[p] =>
                \A i \in 1..Len(tables[p]) :
                  refreshed[tables[p][i]] # <<>> /\ refreshed[tables[p][i]][1] # None =>
                      target_endpoints[p][i].endpoint = refreshed[tables[p][i]][1]

\* The tables of the route call of caller p that were not cached when the
\* call began.
MissedAtCall(p) == {tables[p][i] : i \in {j \in 1..Len(tables[p]) : cache0[p][tables[p][j]] = None}}

\* C27: a route call with at least one table that misses the cache issues
\* exactly one remote call, whose request holds exactly the tables that
\* missed, and none that was found in the cache.
C27_OneRequestForMisses ==
    \A p \in SeqProcs :
      op[p] = "route" /\ pc[p] \in {"route_wait", "route_fill", "done"} /\ MissedAtCall(p) # {} =>
          /\ Len(rpcs[p]) = 1
          /\ rpcs[p][1] = MissedAtCall(p)
          /\ \A t \in Range(tables[p]) : cache0[p][t] # None => t \notin rpcs[p][1]

\* A route of two tables, one cached and one not, has returned after one
\* remote call that asked for the one that was not cached.
C27_Witness ==
    \E p \in SeqProcs :
      /\ op[p] = "route"
      /\ pc[p] = "done"
      /\ ret[p].st = "ok"
      /\ Len(tables[p]) = 2
      /\ cache0[p][tables[p][1]] # None
      /\ cache0[p][tables[p][2]] = None
      /\ rpcs[p] = <<{tables[p][2]}>>

\* The response of the route call of caller p has an endpoint for table t.
Answered(p, t) ==
    \E i \in 1..Len(resp0[p]) : resp0[p][i].table = t /\ resp0[p][i].endpoint # None

\* C28: route puts into the cache only a pair (table, endpoint) that is the
\* entry of the response of its remote call it is taking up; a table that missed
\* the cache and got the default endpoint because the response has no
\* endpoint for it is not cached, so that the next route for it misses again.
C28_OnlyRemoteAnswersCached ==
    /\ [][\A t \in Tables :
            cache'[t] # cache[t] /\ cache'[t] # None =>
                \E p \in SeqProcs :
                  /\ op[p] = "route"
                  /\ pc[p] \in {"route_wait", "route_fill"}
                  /\ LET j == IF pc[p] = "route_fill" THEN idx[p] ELSE 1 IN
                     /\ j <= Len(resp0'[p])
                     /\ resp0'[p][j] = [table |-> t, endpoint |-> cache'[t]]]_vars
    /\ [](\A p \in SeqProcs :
            op[p] = "route" /\ pc[p] = "done" /\ ret[p].st = "ok" =>
                \A i \in 1..Len(tables[p]) :
                  cache0[p][tables[p][i]] = None /\ ~Answered(p, tables[p][i]) =>
                      /\ target_endpoints[p][i] = DefaultEndpoint
                      /\ cache[tables[p][i]] = None)

\* A route of two tables that both missed has returned: the response had an
\* endpoint for the first, which is cached, and an entry without endpoint for
\* the second, which got the default endpoint and is not cached.
C28_Witness ==
    \E p \in SeqProcs :
      /\ op[p] = "route"
      /\ pc[p] = "done"
      /\ ret[p].st = "ok"
      /\ Len(tables[p]) = 2
      /\ Len(resp0[p]) = 2
      /\ cache0[p][tables[p][1]] = None
      /\ cache0[p][tables[p][2]] = None
      /\ Answered(p, tables[p][1])
      /\ cache[tables[p][1]] # None
      /\ resp0[p][2] = [table |-> tables[p][2], endpoint |-> None]
      /\ target_endpoints[p][2] = DefaultEndpoint
      /\ cache[tables[p][2]] = None

\* C29: a table leaves the cache only in a step of an evict call whose list
\* names it; a step of route, whether its remote call answers or fails,
\* removes nothing: every table cached before it is cached after it.
C29_OnlyEvictRemoves ==
    [][ /\ \A t \in Tables :
             cache[t] # None /\ cache'[t] = None =>
                 \E p \in SeqProcs :
                   /\ EvictStepOf(p)
                   /\ t \in Range(tables'[p])
        /\ \A p \in SeqProcs :
             op'[p] = "route" /\ (pc'[p] # pc[p] \/ idx'[p] # idx[p]) =>
                 \A t \in Tables : cache[t] # None => cache'[t] # None ]_vars

\* A route of a cached table and of one that was not cached has returned:
\* the first is cached as before, the second has been put into the cache,
\* and a table evicted before the call is still out of the cache.
C29_Witness ==
    \E p \in SeqProcs :
      /\ op[p] = "route"
      /\ pc[p] = "done"
      /\ ret[p].st = "ok"
      /\ Len(tables[p]) = 2
      /\ cache0[p][tables[p][1]] # None
      /\ cache[tables[p][1]] = cache0[p][tables[p][1]]
      /\ cache0[p][tables[p][2]] = None
      /\ cache[tables[p][2]] # None
      /\ \E t \in Tables \ Range(tables[p]) : evicted[t] \in Endpoints /\ cache[t] = None

\* The pairs of the aggregator's input that succeeded, and those that failed.
OkPairs == {i \in 1..Len(fin) : fin[i].result.ok}

ErrPairs == {i \in 1..Len(fin) : ~fin[i].result.ok}

\* Sums over the pairs S of the input, taken in no order.
RECURSIVE PairsSuccess(_)
PairsSuccess(S) ==
    IF S = {} THEN 0
    ELSE LET i == CHOOSE x \in S : TRUE
         IN  U32Val(fin[i].result.val.success) + PairsSuccess(S \ {i})

RECURSIVE PairsFailed(_)
PairsFailed(S) ==
    IF S = {} THEN 0
    ELSE LET i == CHOOSE x \in S : TRUE
         IN  U32Val(fin[i].result.val.failed) + PairsFailed(S \ {i})

RECURSIVE PairsTables(_)
PairsTables(S) ==
    IF S = {} THEN 0
    ELSE LET i == CHOOSE x \in S : TRUE
         IN  Len(fin[i].tables) + PairsTables(S \ {i})

\* C30: the aggregator does not depend on the order of its pairs: in whatever
\* order the pairs are taken, ok.success and ok.failed are the sums over the
\* successful pairs, the ok tables are the tables of the successful pairs,
\* none lost, errors holds every failed pair as often as the input does, also
\* one without tables, and all_ok() is true iff no pair failed; this in a
\* build with overflow checks and in one without.
C30_AggregateOrderIndependent ==
    fout # <<>> =>
        LET out == fout[1].out IN
        /\ ~out.panicked
        /\ U32Val(out.ok.success) = PairsSuccess(OkPairs)
        /\ U32Val(out.ok.failed) = PairsFailed(OkPairs)
        /\ Range(out.ok.tables) = UNION {Range(fin[i].tables) : i \in OkPairs}
        /\ Len(out.ok.tables) = PairsTables(OkPairs)
        /\ Len(out.errors) = Cardinality(ErrPairs)
        /\ \A i \in ErrPairs :
             Count(out.errors, [tables |-> fin[i].tables, err |-> fin[i].result.err])
               = Cardinality({j \in ErrPairs : /\ fin[j].tables = fin[i].tables
                                                /\ fin[j].result.err = fin[i].result.err})
        /\ all_ok(out) <=> (ErrPairs = {})

\* Three pairs, two written with different counts and one failed without
\* tables, were taken in reverse order: the sums are 6 and 2 and the failed
\* pair is in errors.
C30_Witness ==
    /\ fout # <<>>
    /\ Len(fin) = 3
    /\ fout[1].perm = <<3, 2, 1>>
    /\ fin[1].result = Ok([success |-> <<0, 5>>, failed |-> <<0, 0>>])
    /\ fin[2].result = Ok([success |-> <<0, 1>>, failed |-> <<0, 2>>])
    /\ fin[3] = [tables |-> <<>>, result |-> Err(RpcError)]
    /\ fout[1].out.ok.success = <<0, 6>>
    /\ fout[1].out.ok.failed = <<0, 2>>
    /\ fout[1].out.errors = <<[tables |-> <<>>, err |-> RpcError]>>

\* C31: no RPC is retried automatically: a write issues the write RPC of
\* each of its partitions at most once (one invocation per partition, no two
\* to the same endpoint), a query issues its query RPC at most once and a call
\* issues one remote resolve call; and a write or query that names a table
\* which was evicted before the call began (and not resolved again since)
\* asks the remote to resolve it.
C31_NoAutomaticRetry ==
    \A p \in Procs :
        /\ op[p] = "write" =>
              /\ Len(sent[p]) <= Len(parts[p])
              /\ pc[p] \in {"write_join", "evict_loop", "done"} =>
                    Len(sent[p]) = Len(parts[p])
              /\ \A i, j \in 1..Len(sent[p]) : sent[p][i].ep = sent[p][j].ep => i = j
        /\ op[p] = "query" => Len(qsent[p]) <= 1
        /\ op[p] \in {"write", "query"} => Len(rpcs[p]) <= 1
        /\ (op[p] \in {"write", "query"} /\ rpcs[p] # <<>>) =>
              \A t \in Range(tables[p]) :
                  evicted0[p][t] # None => t \in rpcs[p][1]

\* A write of A and B after a call that evicted them while they were cached
\* (the stale failure of a write, or a failed query): the write asks the
\* remote for both again, once.
C31_Witness ==
    \E p \in Procs :
        /\ op[p] = "write"
        /\ pc[p] = "route_wait"
        /\ tables[p] = <<"A", "B">>
        /\ evicted0[p]["A"] = "X"
        /\ evicted0[p]["B"] = "X"
        /\ rpcs[p] = <<{"A", "B"}>>

\* C32: once an evict of table t has returned, a route call that was in
\* flight when the evict ran (it began, and issued its remote call, while t
\* was not marked evicted; t is marked evicted now and was not inserted
\* since) does not put t back into the cache when it goes on with the answer
\* it got.
C32_EvictNotUndone ==
    [][ \A p \in Procs, t \in Tables :
          ( /\ pc[p] \in {"route_answered", "route_fill"}
            /\ (pc'[p] # pc[p] \/ idx'[p] # idx[p])
            /\ evicted0[p][t] = None
            /\ evicted[t] # None
            /\ \A q \in Procs : ~(op[q] = "evict" /\ pc[q] = "evict_loop") )
          => cache'[t] = None ]_vars

\* C33: when route returns an error, whatever the cause, the cache is as it
\* was when the call began.
C33_RouteErrorKeepsCache ==
    \A p \in SeqProcs :
        (op[p] = "route" /\ pc[p] = "done" /\ ret[p].st = "err") => cache = cache0[p]

\* C34: when route succeeds, two positions of its input that name the same
\* table get the same endpoint.
C34_SameTableSameEndpoint ==
    \A p \in SeqProcs :
        (op[p] = "route" /\ pc[p] = "done" /\ ret[p].st = "ok") =>
            \A i, j \in 1..Len(tables[p]) :
                tables[p][i] = tables[p][j] => ret[p].val[i] = ret[p].val[j]

\* C35: with RouterImpl behind them, a write or query whose route succeeded
\* has a concrete endpoint for every table it named, a write has no
\* unroutable table and reports no unroutable entry, and a query does not
\* fail for want of an endpoint.
C35_RouterImplAlwaysResolves ==
    \A p \in Procs :
        op[p] \in {"write", "query"} =>
            /\ pc[p] \in {"pool_get", "pool_entry", "write_poll", "write_join",
                          "inner_enter", "inner_init", "inner_wait", "rpc_wait"} =>
                  /\ Len(target_endpoints[p]) = Len(tables[p])
                  /\ \A i \in 1..Len(tables[p]) : target_endpoints[p][i] \in Endpoints
            /\ no_ep[p] = <<>>
            /\ \A k \in 1..Len(route_based_error[p].errors) :
                  route_based_error[p].errors[k].err.kind # "Unknown"
            /\ (ret[p].st = "err" /\ ret[p].err.kind = "Unknown") =>
                  ret[p].err.msg # "table doesn't have corresponding endpoint"

\* A write of C and A was routed while the server has a route for A only: C
\* went to the default endpoint, and both partitions were written.
C35_Witness ==
    \E p \in Procs :
        /\ op[p] = "write"
        /\ pc[p] = "done"
        /\ tables[p] = <<"C", "A">>
        /\ target_endpoints[p] = <<DefaultEndpoint, "X">>
        /\ Len(sent[p]) = 2
        /\ ret[p].st = "ok"

\* A step in which the query of caller p ends.
QueryEnds(p) == op'[p] = "query" /\ pc[p] # "done" /\ pc'[p] = "done"

\* C36: a query evicts only when its query RPC step (sql_query_internal)
\* fails: tables are handed to evict only at the failed end of that step, and
\* a step of a query removes a cache entry only in the evict that follows it;
\* a query that ends with success returns the server's response as it is and
\* evicts nothing; a query that ends before its query RPC step (table
\* validation, database, router initialisation, route) evicts nothing.
C36_QueryEvictsOnlyOnRpcFailure ==
    [][ \A p \in SeqProcs :
          op'[p] = "query" =>
             /\ (\E t \in Tables : cache[t] # None /\ cache'[t] = None)
                => /\ pc[p] = "evict_loop"
                   /\ ret[p].st = "err"
                   /\ evicts[p] = tables[p]
             /\ (evicts'[p] # evicts[p] /\ evicts'[p] # <<>>)
                => /\ pc[p] \in {"rpc_wait", "inner_init"}
                   /\ ret'[p].st = "err"
                   /\ pc'[p] = "evict_loop"
             /\ (QueryEnds(p) /\ ret'[p].st = "ok")
                => /\ pc[p] = "rpc_wait"
                   /\ ret'[p].val = "rows"
                   /\ cache' = cache
                   /\ evicts'[p] = <<>>
             /\ (QueryEnds(p) /\ pc[p] \notin {"rpc_wait", "inner_init", "evict_loop"})
                => /\ ret'[p].st = "err"
                   /\ \A t \in Tables : cache[t] # None => cache'[t] # None
                   /\ evicts'[p] = <<>> ]_vars

\* A query of A ended with the server's rows; A is still cached and nothing
\* was handed to evict.
C36_Witness ==
    \E p \in SeqProcs :
        /\ op[p] = "query"
        /\ pc[p] = "done"
        /\ ret[p] = Ok("rows")
        /\ tables[p] = <<"A">>
        /\ cache["A"] = "X"
        /\ evicts[p] = <<>>

\* C37: the transport client of a pooled endpoint is built successfully at
\* most once, and is there exactly when a build succeeded; a user that finds
\* a build in flight waits for it; a failed build ends only the query or
\* partition that ran it, leaves every other user as it was and the cell
\* empty and free, and the next user that finds it so builds again.
C37_InnerClientBuiltOnce ==
    /\ [](\A e \in Endpoints :
            /\ inner_client[e].built <= 1
            /\ inner_client[e].value # None <=> inner_client[e].built = 1
            /\ Cardinality({p \in Procs : pc[p] = "inner_init" /\ endpoint[p] = e}) <= 1)
    /\ [][ \A p \in Procs :
             /\ (pc[p] = "inner_init" /\ pc'[p] = "done") =>
                   /\ ret'[p].st = "err"
                   /\ \A q \in Procs \ {p} : ret'[q] = ret[q] /\ pc'[q] = pc[q]
                   /\ inner_client'[endpoint[p]].value = None
                   /\ inner_client'[endpoint[p]].permit = None
             /\ (op'[p] = "inner" /\ pc[p] \in {"idle", "inner_wait"} /\ pc'[p] # pc[p]) =>
                   LET c == inner_client[endpoint'[p]] IN
                   /\ (c.value = None /\ c.permit = None) =>
                         /\ pc'[p] = "inner_init"
                         /\ inner_client'[endpoint'[p]].attempts = c.attempts + 1
                   /\ (c.value = None /\ c.permit # None) => pc'[p] = "inner_wait"
                   /\ c.value # None => pc'[p] = "rpc_wait" ]_vars

\* Two users of X have their RPCs in flight through the one transport client
\* of X, which was built at the second attempt.
C37_Witness ==
    /\ \A p \in Procs : pc[p] = "rpc_wait" /\ endpoint[p] = "X"
    /\ inner_client["X"].built = 1
    /\ inner_client["X"].attempts = 2

\* C38: a failed initialisation of the router (the build of the router
\* client, or a router_endpoint that does not parse) is the error of the call
\* that ran it and leaves the router cell empty and free; a call that finds
\* the cell empty and free runs the initialisation again; the router is
\* built at most once, and a call that finds it built routes with it and
\* builds nothing.
C38_RouterInitRetried ==
    /\ [](/\ routers_built <= 1
          /\ router # None <=> routers_built = 1
          /\ router # None => FromStr(router_endpoint).ok)
    /\ [][ \A p \in Procs :
             /\ (pc[p] = "router_init" /\ pc'[p] = "done") =>
                   /\ ret'[p].st = "err"
                   /\ ret'[p].err.kind \in {"Connect", "Client"}
                   /\ ret'[p].err.kind = "Client" =>
                         ret'[p].err = ParseEndpointError(router_endpoint)
                   /\ router' = None
                   /\ init_permit' = None
                   /\ routers_built' = routers_built
             /\ (/\ op'[p] \in {"write", "query"}
                 /\ pc[p] \in {"idle", "router_wait"}
                 /\ pc'[p] \notin {pc[p], "done"}) =>
                   /\ (router = None /\ init_permit = None) =>
                         pc'[p] = "router_init" /\ init_permit' = p
                   /\ router # None =>
                         /\ pc'[p] \in {"route_find", "route_wait"}
                         /\ router' = router
                         /\ routers_built' = routers_built ]_vars

\* The initialisation run by one call failed, and a later call ran it again
\* with success and is routing.
C38_Witness ==
    \E p, q \in Procs :
        /\ pc[p] = "done"
        /\ ret[p].st = "err"
        /\ ret[p].err.kind = "Connect"
        /\ pc[q] = "route_wait"
        /\ router # None
        /\ routers_built = 1

\* The caller is inside sql_query_internal or write_internal: a query RPC
\* or a write partition of RouteBasedImpl is in flight, or a call of RawImpl
\* is at the build of its transport client or at its RPC.
InInternalCall(p) ==
    \/ op[p] = "query" /\ pc[p] \in {"inner_init", "inner_wait", "rpc_wait"}
    \/ op[p] = "write" /\ sent[p] # <<>>
    \/ op[p] = "raw" /\ pc[p] \in {"inner_init", "inner_wait", "rpc_wait"}

\* C39: whenever sql_query_internal or write_internal runs, for a call
\* that came in through sql_query or write of RouteBasedImpl or of RawImpl,
\* the context it got has a database (assert!(ctx.database.is_some()) holds);
\* a call whose context resolves to no database has ended with
\* Error::NoDatabase and sent nothing.
C39_DatabaseAsserted ==
    \A p \in Procs :
        /\ InInternalCall(p) => database[p]
        /\ (op[p] \in {"write", "raw"} \/ (op[p] = "query" /\ tables[p] # <<>>)) /\ ~database[p] =>
              /\ pc[p] = "done"
              /\ ret[p].st = "err"
              /\ ret[p].err.kind = "NoDatabase"
              /\ sent[p] = <<>>
              /\ qsent[p] = <<>>

\* A write of RouteBasedImpl has a partition in flight and a call of RawImpl
\* has its RPC in flight, both with a database.
C39_Witness ==
    \E p, q \in Procs :
        /\ op[p] = "write"
        /\ pc[p] = "write_join"
        /\ Len(sent[p]) = 1
        /\ op[q] = "raw"
        /\ pc[q] = "rpc_wait"
        /\ database[p]
        /\ database[q]

\* The sum of the integers of a sequence.
RECURSIVE SumSeq(_)
SumSeq(q) == IF q = <<>> THEN 0 ELSE Head(q) + SumSeq(Tail(q))

\* The exact sum of the u32 counts `field` of the successful pairs, as
\* <<carry, hi, lo>>: carry * 2^32 + hi * 2^16 + lo.
ExactSum(pairs, field) ==
    LET oks == SelectSeq(pairs, LAMBDA x : x.result.ok)
        lo == SumSeq([i \in 1..Len(oks) |-> oks[i].result.val[field][2]])
        hi == SumSeq([i \in 1..Len(oks) |-> oks[i].result.val[field][1]]) + (lo \div Half)
    IN  <<hi \div Half, hi % Half, lo % Half>>

\* C40: for every list of pairs, in every build, the aggregation ends
\* without panic, and its ok.success and ok.failed are the exact sums of the
\* counts of the successful pairs, also when a sum is beyond 2^32 - 1.
C40_ExactCounts ==
    fout # <<>> =>
        /\ ~fout[1].panicked
        /\ <<0>> \o fout[1].ok.success = ExactSum(fin, "success")
        /\ <<0>> \o fout[1].ok.failed = ExactSum(fin, "failed")

====
